---- MODULE Spec2Model ----
(***************************************************************************)
(* Ledger pipeline of the agentic accounting workflow: the table store,   *)
(* the four ledger stages (ValidationAgent, ExceptionDeskAgent,           *)
(* PostingEngineAgent, ReconciliationAgent), the two pipeline handlers    *)
(* (run_flow, run_async_pipeline) and the review webhook                  *)
(* (resolve_approval).                                                    *)
(*                                                                         *)
(* Conventions.  Money is an integer number of hundredths (1100.00 is     *)
(* 110000).  A float cell is <<v>> or NaN == <<>>.  Text the code         *)
(* searches, slices or rewrites (status, recommendation) is a tuple of    *)
(* one-character strings; text the code only compares is a TLA+ string.   *)
(* Dates are day numbers.                                                  *)
(***************************************************************************)
EXTENDS Integers, Sequences, FiniteSets, TLC

VARIABLES data, dfs, outputs, responses, last, calls

vars == <<data, dfs, outputs, responses, last, calls>>

\* ------------------------------------------------------------------ bounds
MaxDocs == 2
MaxCalls == 2
MaxAudit == 6
MaxDay == 8

\* ------------------------------------------------------------ float cells
NaN == <<>>
Num(v) == <<v>>
IsNum(x) == Len(x) = 1
Val(x) == x[1]
Mul(a, b) == IF IsNum(a) /\ IsNum(b) THEN Num(Val(a) * Val(b)) ELSE NaN
Add(a, b) == IF IsNum(a) /\ IsNum(b) THEN Num(Val(a) + Val(b)) ELSE NaN
Sub(a, b) == IF IsNum(a) /\ IsNum(b) THEN Num(Val(a) - Val(b)) ELSE NaN
Abs(a) == IF IsNum(a) THEN Num(IF Val(a) < 0 THEN -Val(a) ELSE Val(a)) ELSE NaN
\* comparisons with NaN are False, as for Python floats
Gt(a, v) == IsNum(a) /\ Val(a) > v
Lt(a, v) == IsNum(a) /\ Val(a) < v
Le(a, v) == IsNum(a) /\ Val(a) <= v
Zero == Num(0)

\* ------------------------------------------------------------------- text
\* str.lower() on the letters A-Z
LowerMap ==
    ("A" :> "a") @@ ("B" :> "b") @@ ("C" :> "c") @@ ("D" :> "d") @@ ("E" :> "e") @@ ("F" :> "f") @@
    ("G" :> "g") @@ ("H" :> "h") @@ ("I" :> "i") @@ ("J" :> "j") @@ ("K" :> "k") @@ ("L" :> "l") @@
    ("M" :> "m") @@ ("N" :> "n") @@ ("O" :> "o") @@ ("P" :> "p") @@ ("Q" :> "q") @@ ("R" :> "r") @@
    ("S" :> "s") @@ ("T" :> "t") @@ ("U" :> "u") @@ ("V" :> "v") @@ ("W" :> "w") @@ ("X" :> "x") @@
    ("Y" :> "y") @@ ("Z" :> "z")
LowerChar(c) == IF c \in DOMAIN LowerMap THEN LowerMap[c] ELSE c
Lower(s) == [i \in 1..Len(s) |-> LowerChar(s[i])]
\* sub in s
Contains(s, sub) ==
    \E i \in 0..(Len(s) - Len(sub)) : \A j \in 1..Len(sub) : s[i + j] = sub[j]
\* Series.str.contains(sub, case=False)
ContainsNoCase(s, sub) ==
    \E i \in 0..(Len(s) - Len(sub)) :
        \A j \in 1..Len(sub) : LowerChar(s[i + j]) = LowerChar(sub[j])
Slice(s, n) == SubSeq(s, 1, IF Len(s) < n THEN Len(s) ELSE n)
RECURSIVE Replace(_, _, _)
Replace(s, old, new) ==
    IF Len(s) < Len(old) THEN s
    ELSE IF SubSeq(s, 1, Len(old)) = old
         THEN new \o Replace(SubSeq(s, Len(old) + 1, Len(s)), old, new)
         ELSE <<s[1]>> \o Replace(Tail(s), old, new)

S_ready == <<"r","e","a","d","y">>
S_READY == <<"R","E","A","D","Y">>
S_EXTRACTED == <<"E","X","T","R","A","C","T","E","D">>
S_posted == <<"p","o","s","t","e","d">>
S_skipped == <<"s","k","i","p","p","e","d">>
S_REVIEW_PENDING == <<"R","E","V","I","E","W","_","P","E","N","D","I","N","G">>
S_Exception == <<"E","x","c","e","p","t","i","o","n">>
S_ExceptionFX == <<"E","x","c","e","p","t","i","o","n",":"," ","F","X"," ","-"," ">>
S_FIX == <<"F","I","X",":"," ">>
S_FX == <<"F","X">>

\* ------------------------------------------------------------ date cells
\* A date cell as read from a CSV is text in day/month/year form ("dmy"), in
\* another form a general parser reads ("iso"), or unreadable ("bad"); a
\* parsed cell is a timestamp ("ts") or NaT.
DateText(day) == [day |-> day, fmt |-> "dmy"]
IsoText(day) == [day |-> day, fmt |-> "iso"]
BadText == [day |-> 0, fmt |-> "bad"]
NaT == [day |-> 0, fmt |-> "NaT"]
Timestamp(day) == [day |-> day, fmt |-> "ts"]
\* pd.to_datetime(x, format='%d/%m/%Y', errors='coerce')
ToDatetimeDMY(cell) ==
    IF cell.fmt \in {"ts", "NaT"} THEN cell
    ELSE IF cell.fmt = "dmy" THEN Timestamp(cell.day) ELSE NaT
\* a parse that gives every cell a date
ToDatetimeAny(cell) == IF cell.fmt = "NaT" THEN cell ELSE Timestamp(cell.day)

\* pd.to_datetime(x, errors='coerce')
ToDatetimeCoerce(cell) ==
    IF cell.fmt \in {"ts", "NaT"} THEN cell
    ELSE IF cell.fmt \in {"dmy", "iso"} THEN Timestamp(cell.day) ELSE NaT

\* ------------------------------------------------------- input documents
\* One row of Documents.csv.  review_url_approve is <<doc_id, key>> or, for
\* an empty cell, <<>>.
Doc(id, ty, no, cpt, cp, cur, day, total, tax, ship, fx, base, st) ==
    [id |-> id, doc_type |-> ty, doc_number |-> no, counterparty_type |-> cpt,
     vendor_customer_id |-> cp, currency |-> cur, issue_date |-> DateText(day),
     total |-> total, tax_amount |-> tax, shipping |-> ship, fx_rate |-> fx,
     base_amount_total |-> base, status |-> st, reviewer_email |-> "NaN",
     review_url_approve |-> <<>>]

Line(doc, no, amount, hint) ==
    [document_id |-> doc, line_no |-> no, line_total |-> Num(amount), gl_hint |-> hint]

\* The rows a Documents.csv may hold, with the line items of each.
Catalogue ==
    << Doc("DOC-INV-0001", "invoice", "INV-2025-00123", "vendor", "V001", "MYR", 10,
           Num(110000), Num(8000), Num(2000), Num(1), Num(110000), S_ready),
       Doc("DOC-CN-0001", "credit_note", "CN-2025-0003", "vendor", "V001", "MYR", 12,
           Num(-10800), Num(-800), Num(0), Num(1), Num(-10800), S_ready),
       Doc("DOC-SINV-0001", "sales_invoice", "SINV-2025-0001", "customer", "C001", "MYR", 11,
           Num(21700), Num(1200), Num(500), Num(1), Num(21700), S_ready),
       Doc("DOC-NOGL-0001", "utility_bill", "UB-2025-0007", "other", "V001", "MYR", 10,
           Num(5000), Num(0), Num(0), Num(1), Num(5000), S_ready),
       Doc("DOC-INV-0002", "invoice", "INV-ID-7788", "vendor", "V002", "IDR", 3,
           Num(500000), Num(0), Num(0), NaN, NaN, S_ready),
       Doc("DOC-INV-0004", "invoice", "INV-ID-7790", "vendor", "V009", "IDR", 7,
           Num(300000), NaN, Num(0), NaN, NaN, S_ready),
       Doc("DOC-QUO-0001", "quotation", "QUO-2025-0001", "customer", "C001", "MYR", 8,
           Num(9000), Num(0), Num(0), Num(1), Num(9000), S_ready),
       Doc("DOC-BILL-0001", "bill", "BILL-2025-0001", "vendor", "V001", "MYR", 8,
           Num(4000), Num(0), Num(0), Num(1), Num(4000), S_ready),
       [ Doc("DOC-INV-0003", "invoice", "INV-ID-7789", "vendor", "V001", "IDR", 2,
             Num(700000), Num(0), Num(0), NaN, NaN, S_REVIEW_PENDING)
         EXCEPT !.reviewer_email = "vendor1@example.com",
                !.review_url_approve = <<"DOC-INV-0003", "k1">> ] >>

CatalogueLines ==
    << Line("DOC-INV-0001", 1, 100000, <<"5000", "Consulting">>),
       Line("DOC-CN-0001", 1, -10000, <<"5000", "Consulting">>),
       Line("DOC-SINV-0001", 1, 20000, <<"4000", "Sales">>),
       Line("DOC-NOGL-0001", 1, 5000, <<>>),
       Line("DOC-INV-0002", 1, 500000, <<"5100", "COGS">>),
       Line("DOC-INV-0004", 1, 100000, <<"5100", "COGS">>),
       Line("DOC-INV-0004", 2, 200000, <<"5200", "Freight">>),
       Line("DOC-QUO-0001", 1, 9000, <<"4000", "Sales">>),
       Line("DOC-BILL-0001", 1, 4000, <<"5300", "Office", "Supplies">>),
       Line("DOC-INV-0003", 1, 700000, <<"5100", "COGS">>) >>

FXRatesTable ==
    << [pair |-> <<"IDR", "MYR">>, date |-> DateText(5), rate |-> Num(2)],
       [pair |-> <<"IDR", "MYR">>, date |-> DateText(6), rate |-> Num(3)],
       [pair |-> <<"USD", "MYR">>, date |-> DateText(1), rate |-> Num(4)] >>

VendorsTable ==
    << [id |-> "V001", email |-> "vendor1@example.com"],
       [id |-> "V002", email |-> "NaN"] >>

CustomersTable == << [id |-> "C001", email |-> "customer1@example.com"] >>

Bank(day, amount, guess) == [date |-> day, amount |-> amount, guess_doc_number |-> guess]

BankFeeds ==
    { << Bank(DateText(20), -110000, "INV-2025-00123"),
         Bank(BadText, -5000, "INV-2025-00123"),
         Bank(IsoText(22), 10000, "SINV-2025-0001"),
         Bank(DateText(23), -700, "NO-SUCH-DOC") >> }

RECURSIVE SelectSeq2(_, _)
\* the rows of table t whose position is in the set idx, in table order
SelectSeq2(t, idx) ==
    IF t = <<>> THEN <<>>
    ELSE SelectSeq2(SubSeq(t, 1, Len(t) - 1), idx)
         \o (IF Len(t) \in idx THEN <<t[Len(t)]>> ELSE <<>>)

\* Documents.csv: at most MaxDocs catalogue rows, in catalogue order, ids distinct
InputDocuments ==
    { SelectSeq2(Catalogue, idx) :
        idx \in { x \in SUBSET (1..Len(Catalogue)) : Cardinality(x) \in 1..MaxDocs } }

LinesOf(docs) ==
    SelectSeq(CatalogueLines, LAMBDA l : \E i \in 1..Len(docs) : docs[i].id = l.document_id)

\* utils.py:79-81: the columns of AP and AR
DefaultColumns ==
    {"doc_id", "counterparty_id", "total", "amount_due", "due_date", "status", "last_reminder_at"}

\* The tables of one store (the dict of DataFrames); subledger_columns are
\* the columns of AP and AR as loaded.
Store(docs, feed) ==
    [Documents |-> docs, LineItems |-> LinesOf(docs), JournalEntries |-> <<>>,
     AP |-> <<>>, AR |-> <<>>, AuditLog |-> <<>>, FXRates |-> FXRatesTable,
     Vendors |-> VendorsTable, Customers |-> CustomersTable, BankFeed |-> feed,
     subledger_columns |-> DefaultColumns]

\* ---------------------------------------------------------------- tables
\* df.loc[df[col] == key, 'status'] = value
SetStatusById(docs, id, value) ==
    [i \in 1..Len(docs) |->
        IF docs[i].id = id THEN [docs[i] EXCEPT !.status = value] ELSE docs[i]]

Audit(actor, action, doc_id) == [actor |-> actor, action |-> action, doc_id |-> doc_id]

\* ------------------------------------------------- PostingEngineAgent
\* a journal line before its je_id is assigned
Draft(doc, line_no, account, debit, credit, fx, base) ==
    [date |-> ToDatetimeCoerce(doc.issue_date).day, doc_id |-> doc.id, line_no |-> line_no,
     account |-> account, debit |-> debit, credit |-> credit, fx_rate |-> fx,
     base_amount |-> base]

\* a tax amount that is never posted
NoTax(doc) == Zero

TaxAmount(doc) == IF IsNum(doc.tax_amount) THEN doc.tax_amount ELSE Zero

SubledgerRow(doc, total) ==
    [doc_id |-> doc.id, counterparty_id |-> doc.vendor_customer_id, total |-> total,
     amount_due |-> total, status |-> "outstanding"]

\* posting_engine_agent.py:111-132
VendorInvoiceDrafts(doc, lines) ==
    [i \in 1..Len(lines) |->
        Draft(doc, lines[i].line_no, lines[i].gl_hint[1],
              Mul(lines[i].line_total, doc.fx_rate), Zero, doc.fx_rate, lines[i].line_total)]
    \o (IF Gt(Mul(TaxAmount(doc), doc.fx_rate), 0)
        THEN << Draft(doc, 0, "1400 Input Tax", Mul(TaxAmount(doc), doc.fx_rate), Zero,
                      doc.fx_rate, TaxAmount(doc)) >>
        ELSE <<>>)
    \o (IF Gt(doc.shipping, 0)
        THEN << Draft(doc, 0, "5300 Office Supplies", Mul(doc.shipping, doc.fx_rate), Zero,
                      doc.fx_rate, doc.shipping) >>
        ELSE <<>>)
    \o << Draft(doc, 0, "2100 Accounts Payable", Zero, doc.base_amount_total,
                doc.fx_rate, doc.total) >>

\* posting_engine_agent.py:135-149
SalesInvoiceDrafts(doc, lines) ==
    [i \in 1..Len(lines) |->
        Draft(doc, lines[i].line_no, lines[i].gl_hint[1], Zero, lines[i].line_total,
              Num(1), Zero)]
    \o (IF Gt(TaxAmount(doc), 0)
        THEN << Draft(doc, 0, "2200 Output Tax", Zero, TaxAmount(doc), Num(1), Zero) >>
        ELSE <<>>)
    \o << Draft(doc, 0, "1200 Accounts Receivable", doc.total, Zero, Num(1), Zero) >>

\* posting_engine_agent.py:152-169
CreditNoteDrafts(doc, lines) ==
    [i \in 1..Len(lines) |->
        Draft(doc, lines[i].line_no, lines[i].gl_hint[1], Zero, Abs(lines[i].line_total),
              Num(1), Zero)]
    \o (IF Lt(TaxAmount(doc), 0)
        THEN << Draft(doc, 0, "1400 Input Tax", Zero, Abs(TaxAmount(doc)), Num(1), Zero) >>
        ELSE <<>>)
    \o << Draft(doc, 0, "2100 Accounts Payable", Abs(doc.total), Zero, Num(1), Zero) >>

\* What posting one document raises: line['gl_hint'].split on an empty cell
\* (AttributeError) and strftime on an unreadable issue date.
PostingRaises(doc, lines) ==
    /\ doc.doc_type \in {"invoice", "utility_bill", "sales_invoice", "credit_note"}
    /\ \/ \E i \in 1..Len(lines) : lines[i].gl_hint = <<>>
       \/ ToDatetimeCoerce(doc.issue_date) = NaT

DraftsFor(doc, lines) ==
    CASE doc.doc_type \in {"invoice", "utility_bill"} -> VendorInvoiceDrafts(doc, lines)
      [] doc.doc_type = "sales_invoice" -> SalesInvoiceDrafts(doc, lines)
      [] doc.doc_type = "credit_note" -> CreditNoteDrafts(doc, lines)
      [] OTHER -> <<>>

\* an AP row that carries the document total for every type
NewAPOfTotal(doc) ==
    IF doc.doc_type \in {"invoice", "utility_bill", "credit_note"}
    THEN << SubledgerRow(doc, doc.total) >> ELSE <<>>

NewAPFor(doc) ==
    CASE doc.doc_type \in {"invoice", "utility_bill"} -> << SubledgerRow(doc, doc.base_amount_total) >>
      [] doc.doc_type = "credit_note" -> << SubledgerRow(doc, doc.total) >>
      [] OTHER -> <<>>

NewARFor(doc) ==
    IF doc.doc_type = "sales_invoice" THEN << SubledgerRow(doc, doc.total) >> ELSE <<>>

\* generate_journal_entry: the counter is incremented, then used as the je_id
Numbered(drafts, counter) ==
    [i \in 1..Len(drafts) |->
        [je_id |-> counter + i, date |-> drafts[i].date, doc_id |-> drafts[i].doc_id,
         line_no |-> drafts[i].line_no, account |-> drafts[i].account,
         debit |-> drafts[i].debit, credit |-> drafts[i].credit,
         fx_rate |-> drafts[i].fx_rate, base_amount |-> drafts[i].base_amount]]

\* The status the engine writes for a document it has run its rules on.
PostedStatus(doc) == S_posted

\* no document type is informational
NoneInformational(doc) == FALSE

\* posting_engine_agent.py:88: the types that are never posted
IsInformational(doc) == doc.doc_type \in {"quotation", "SO"}

\* One turn of the loop of run() for the ready row doc.  acc carries the
\* Documents and AuditLog tables (changed in place) and the rows kept in
\* local lists until the end of run().
PostOne(acc, doc, lineItems) ==
    LET lines == SelectSeq(lineItems, LAMBDA l : l.document_id = doc.id) IN
    IF acc.raised THEN acc
    ELSE IF IsInformational(doc)
    THEN [acc EXCEPT !.Documents = SetStatusById(@, doc.id, S_skipped),
                     !.AuditLog = Append(@, Audit("PostingEngineAgent", "SKIPPED_INFO_DOC", doc.id))]
    ELSE IF PostingRaises(doc, lines)
    THEN [acc EXCEPT !.raised = TRUE]
    ELSE [acc EXCEPT !.Documents = SetStatusById(@, doc.id, PostedStatus(doc)),
                     !.AuditLog = Append(@, Audit("PostingEngineAgent", "POSTED", doc.id)),
                     !.je = @ \o Numbered(DraftsFor(doc, lines), acc.je_counter + Len(@)),
                     !.ap = @ \o NewAPFor(doc),
                     !.ar = @ \o NewARFor(doc)]

RECURSIVE PostAll(_, _, _)
PostAll(acc, ready, lineItems) ==
    IF ready = <<>> THEN acc
    ELSE PostAll(PostOne(acc, Head(ready), lineItems), Tail(ready), lineItems)

\* a selection that also takes the rows already posted
IsReadyOrPosted(doc) == doc.status \in {S_ready, S_posted}

IsReady(doc) == doc.status = S_ready

\* PostingEngineAgent(dfs).run(): the store it leaves, and whether it raised.
\* When it raises, the rows kept in the local lists are never written.
PostingEngine_run(s) ==
    LET acc == PostAll([Documents |-> s.Documents, AuditLog |-> s.AuditLog,
                        je |-> <<>>, ap |-> <<>>, ar |-> <<>>,
                        je_counter |-> Len(s.JournalEntries), raised |-> FALSE],
                       SelectSeq(s.Documents, IsReady), s.LineItems)
    IN  [store |-> IF acc.raised
                   THEN [s EXCEPT !.Documents = acc.Documents, !.AuditLog = acc.AuditLog]
                   ELSE [s EXCEPT !.Documents = acc.Documents, !.AuditLog = acc.AuditLog,
                                  !.JournalEntries = @ \o acc.je,
                                  !.AP = @ \o acc.ap, !.AR = @ \o acc.ar],
         raised |-> acc.raised]

\* ------------------------------------------------------ ValidationAgent
BaseCurrency == "MYR"

\* what get_fx_rate leaves in FXRates: the date column parsed in place
ParsedFXRates(fx) == [i \in 1..Len(fx) |-> [fx[i] EXCEPT !.date = ToDatetimeDMY(@)]]

\* a lookup that takes the earliest row of the pair instead of the latest
get_fx_rate_earliest(fx, date_cell, from_currency) ==
    LET doc_date == ToDatetimeDMY(date_cell)
        rows == ParsedFXRates(fx)
        hits == { i \in 1..Len(rows) :
                    /\ rows[i].pair = <<from_currency, BaseCurrency>>
                    /\ rows[i].date # NaT
                    /\ rows[i].date.day <= doc_date.day }
    IN  IF from_currency = BaseCurrency THEN << Num(1) >>
        ELSE IF doc_date = NaT \/ hits = {} THEN <<>>
        ELSE << rows[CHOOSE i \in hits :
                        \A j \in hits : rows[i].date.day <= rows[j].date.day].rate >>

\* get_fx_rate: <<rate>> of the latest row of the pair dated on or before the
\* document date, <<>> for None
get_fx_rate(fx, date_cell, from_currency) ==
    LET doc_date == ToDatetimeDMY(date_cell)
        rows == ParsedFXRates(fx)
        hits == { i \in 1..Len(rows) :
                    /\ rows[i].pair = <<from_currency, BaseCurrency>>
                    /\ rows[i].date # NaT
                    /\ rows[i].date.day <= doc_date.day }
    IN  IF from_currency = BaseCurrency THEN << Num(1) >>
        ELSE IF doc_date = NaT \/ hits = {} THEN <<>>
        ELSE << rows[CHOOSE i \in hits :
                        \A j \in hits : rows[j].date.day <= rows[i].date.day].rate >>

\* the answers of the explanation capability (ai_analyze_exception)
SimulationText == <<"F","I","X",":"," ","E","x","c","e","p","t","i","o","n"," ","r","e","q","u","i","r","e","s"," ","m","a","n","u","a","l"," ","r","e","v","i","e","w"," ","(","S","i","m","u","l","a","t","i","o","n"," ","M","o","d","e",")",".">>
FailedText == <<"F","I","X",":"," ","A","I"," ","A","n","a","l","y","s","i","s"," ","F","a","i","l","e","d",".">>
ModelText == <<"F","I","X",":"," ","M","a","r","k"," ","r","e","a","d","y"," ","o","n","c","e"," ","I","D","R","/","M","Y","R"," ","r","a","t","e"," ","i","s"," ","k","n","o","w","n">>
Answer(text) == [raises |-> FALSE, text |-> text]
Raises == [raises |-> TRUE, text |-> <<>>]
\* without a client the fixed text; with one, the model's text, the text
\* returned on APIError, or an error that is not an APIError
ExplainAnswers == {Answer(SimulationText), Answer(ModelText), Answer(FailedText), Raises}

RecommendationChars == 50

\* the status with the whole recommendation in it
ExceptionStatusWhole(recommendation) == S_ExceptionFX \o Replace(recommendation, S_FIX, <<>>)

ExceptionStatus(recommendation) ==
    S_ExceptionFX \o Slice(Replace(recommendation, S_FIX, <<>>), RecommendationChars)

\* a selection that takes the foreign-currency rows of every status
NeedsRateAnyStatus(doc) == doc.currency # BaseCurrency

NeedsRate(doc) == doc.status = S_ready /\ doc.currency # BaseCurrency

\* One turn of the loop of run() for row i (the row as it was when the loop
\* started), with the capability's answer for it.
ValidateOne(acc, i, row, answer) ==
    LET rate == get_fx_rate(acc.FXRates, row.issue_date, row.currency) IN
    IF acc.raised \/ ~NeedsRate(row) THEN acc
    ELSE IF rate # <<>>
    THEN [acc EXCEPT !.FXRates = ParsedFXRates(@),
                     !.Documents[i].fx_rate = rate[1],
                     !.Documents[i].base_amount_total = Mul(row.total, rate[1])]
    ELSE IF answer.raises
    THEN [acc EXCEPT !.FXRates = ParsedFXRates(@), !.raised = TRUE]
    ELSE [acc EXCEPT !.FXRates = ParsedFXRates(@),
                     !.Documents[i].status = ExceptionStatus(answer.text),
                     !.AuditLog = Append(@, Audit("ValidationAgent", "AI_EXCEPTION_ANALYSIS", row.id))]

RECURSIVE ValidateFrom(_, _, _, _)
ValidateFrom(acc, i, rows, answers) ==
    IF i > Len(rows) THEN acc
    ELSE ValidateFrom(ValidateOne(acc, i, rows[i], answers[i]), i + 1, rows, answers)

\* ValidationAgent(dfs).run() with answers[i] the capability's answer for
\* row i: the store it leaves, and whether it raised.
ValidationAgent_run(s, answers) ==
    LET acc == ValidateFrom([Documents |-> s.Documents, AuditLog |-> s.AuditLog,
                             FXRates |-> s.FXRates, raised |-> FALSE],
                            1, s.Documents, answers)
    IN  [store |-> [s EXCEPT !.Documents = acc.Documents, !.AuditLog = acc.AuditLog,
                             !.FXRates = acc.FXRates],
         raised |-> acc.raised]

\* the rows of Documents for which the stage asks the capability
ValidationAsks(s) ==
    { i \in 1..Len(s.Documents) :
        /\ NeedsRate(s.Documents[i])
        /\ get_fx_rate(s.FXRates, s.Documents[i].issue_date, s.Documents[i].currency) = <<>> }

\* one answer for each row asked about, the fixed text for the others
AnswerChoices(asked, n) ==
    { [i \in 1..n |-> IF i \in asked THEN f[i] ELSE Answer(SimulationText)] :
        f \in [asked -> ExplainAnswers] }

\* --------------------------------------------------- ExceptionDeskAgent
DEFAULT_REVIEWER_EMAIL == "accounting.lead@yourcompany.com"

\* the rows run() selects: status contains 'Exception' (any case) and does
\* not contain 'REVIEW_PENDING'
\* a selection that also takes the documents waiting for review
IsExceptionOrPending(doc) ==
    ContainsNoCase(doc.status, S_Exception) \/ doc.status = S_REVIEW_PENDING

IsException(doc) ==
    /\ ContainsNoCase(doc.status, S_Exception)
    /\ ~Contains(doc.status, S_REVIEW_PENDING)

EmailIn(master, counterparty_id) ==
    LET hits == { i \in 1..Len(master) : master[i].id = counterparty_id } IN
    IF hits = {} THEN DEFAULT_REVIEWER_EMAIL
    ELSE LET email == master[CHOOSE i \in hits : \A j \in hits : i <= j].email IN
         IF email \notin {"NaN", ""} THEN email ELSE DEFAULT_REVIEWER_EMAIL

get_reviewer_email(s, doc) ==
    CASE doc.counterparty_type = "vendor" -> EmailIn(s.Vendors, doc.vendor_customer_id)
      [] doc.counterparty_type = "customer" -> EmailIn(s.Customers, doc.vendor_customer_id)
      [] OTHER -> DEFAULT_REVIEWER_EMAIL

\* what the reviewer types at the simulation prompt
Skip == [kind |-> "skip", rate |-> NaN]
Invalid == [kind |-> "invalid", rate |-> NaN]
Rate(r) == [kind |-> "rate", rate |-> Num(r)]
UserInputs == {Skip, Invalid, Rate(2)}
Keys == {"k1", "k2"}

\* the simulation prompt is shown for this row
Prompted(is_simulation, doc) ==
    is_simulation /\ Contains(doc.status, S_FX) /\ doc.currency = "IDR"

\* One turn of the loop of run() for row i.  inp: whether the root-cause
\* call raises, what the reviewer types, and the uuid drawn for the links.
DeskOne(acc, s, i, doc, is_simulation, inp) ==
    LET logged == [acc EXCEPT !.AuditLog =
                        Append(@, Audit("ExceptionDeskAgent", "AI_ROOT_CAUSE", doc.id))]
        email == get_reviewer_email(s, doc)
    IN
    IF acc.raised THEN acc
    ELSE IF inp.raises THEN [acc EXCEPT !.raised = TRUE]
    ELSE IF Prompted(is_simulation, doc) /\ inp.typed.kind = "rate"
    THEN [logged EXCEPT !.Documents[i].fx_rate = inp.typed.rate,
                        !.Documents[i].total = Mul(doc.total, inp.typed.rate),
                        !.Documents[i].status = S_ready,
                        !.AuditLog = Append(@, Audit("ExceptionDeskAgent", "SIM_CORRECTED", doc.id))]
    ELSE IF ~Contains(Lower(logged.Documents[i].status), S_ready)
    THEN [logged EXCEPT !.Documents[i].reviewer_email = email,
                        !.Documents[i].review_url_approve = <<doc.id, inp.key>>,
                        !.Documents[i].status = S_REVIEW_PENDING,
                        !.AuditLog = Append(@, Audit("ExceptionDeskAgent", "ROUTE_TO_HUMAN", doc.id))]
    ELSE logged

RECURSIVE DeskFrom(_, _, _, _, _)
DeskFrom(acc, s, i, is_simulation, inputs) ==
    IF i > Len(s.Documents) THEN acc
    ELSE DeskFrom(IF IsException(s.Documents[i])
                  THEN DeskOne(acc, s, i, s.Documents[i], is_simulation, inputs[i])
                  ELSE acc,
                  s, i + 1, is_simulation, inputs)

\* ExceptionDeskAgent(dfs).run(is_simulation)
ExceptionDeskAgent_run(s, is_simulation, inputs) ==
    LET acc == DeskFrom([Documents |-> s.Documents, AuditLog |-> s.AuditLog, raised |-> FALSE],
                        s, 1, is_simulation, inputs)
    IN  [store |-> [s EXCEPT !.Documents = acc.Documents, !.AuditLog = acc.AuditLog],
         raised |-> acc.raised]

DeskSelects(s) == { i \in 1..Len(s.Documents) : IsException(s.Documents[i]) }

NoInput == [raises |-> FALSE, typed |-> Skip, key |-> "k1"]
\* the inputs of one run: for each selected row, whether the root-cause call
\* raises an error that is not an APIError, what is typed when the prompt is
\* shown, and the key drawn
DeskInputs(s, is_simulation) ==
    LET sel == DeskSelects(s)
        prompted == { i \in sel : Prompted(is_simulation, s.Documents[i]) }
        typed == IF prompted = {} THEN {Skip} ELSE UserInputs
    IN  { [i \in 1..Len(s.Documents) |-> IF i \in sel THEN f[i] ELSE NoInput] :
            f \in { g \in [sel -> [raises : BOOLEAN, typed : typed, key : Keys]] :
                      \A i \in sel \ prompted : g[i].typed = Skip } }

\* -------------------------------------------------- ReconciliationAgent
\* 0.01 in hundredths
PaidEpsilon == 1

\* generate_payment_entry: two ids are taken, counter - 1 and counter
PaymentEntries(counter, day, doc_id, account_dr, account_cr, amount) ==
    << [je_id |-> counter + 1, date |-> day, doc_id |-> doc_id, line_no |-> 0,
        account |-> account_dr, debit |-> Num(amount), credit |-> Zero,
        fx_rate |-> Num(1), base_amount |-> Num(amount)],
       [je_id |-> counter + 2, date |-> day, doc_id |-> doc_id, line_no |-> 0,
        account |-> account_cr, debit |-> Zero, credit |-> Num(amount),
        fx_rate |-> Num(1), base_amount |-> Num(amount)] >>

CN_ID == "DOC-CN-0001"
INV_ID == "DOC-INV-0001"

\* a netting pass that does not look at the status of the credit-note row
ApplyCreditNoteAgain(ap) ==
    LET cn == { i \in 1..Len(ap) : ap[i].doc_id = CN_ID }
        inv == { i \in 1..Len(ap) : ap[i].doc_id = INV_ID }
        cn_amount == ap[CHOOSE i \in cn : \A j \in cn : i <= j].total
    IN  IF cn = {} \/ inv = {} THEN ap
        ELSE [i \in 1..Len(ap) |->
                LET netted == IF i \in inv
                              THEN [ap[i] EXCEPT !.amount_due = Add(@, cn_amount)]
                              ELSE ap[i]
                IN  IF i \in cn THEN [netted EXCEPT !.status = "cleared_applied"] ELSE netted]

\* reconciliation_agent.py:71-77, on the copy of AP
ApplyCreditNote(ap) ==
    LET cn == { i \in 1..Len(ap) : ap[i].doc_id = CN_ID /\ ap[i].status = "outstanding" }
        inv == { i \in 1..Len(ap) : ap[i].doc_id = INV_ID }
        cn_amount == ap[CHOOSE i \in cn : \A j \in cn : i <= j].total
    IN  IF cn = {} \/ inv = {} THEN ap
        ELSE [i \in 1..Len(ap) |->
                LET netted == IF i \in inv
                              THEN [ap[i] EXCEPT !.amount_due = Add(@, cn_amount)]
                              ELSE ap[i]
                IN  IF i \in cn THEN [netted EXCEPT !.status = "cleared_applied"] ELSE netted]

\* every row of doc_id, whatever is still due on it
AllRows(ledger, doc_id) == { i \in 1..Len(ledger) : ledger[i].doc_id = doc_id }

\* the rows of a subledger a payment for doc_id is applied to
OpenRows(ledger, doc_id) ==
    { i \in 1..Len(ledger) : ledger[i].doc_id = doc_id /\ Gt(ledger[i].amount_due, PaidEpsilon) }

\* a payment that settles the open rows of doc_id in full, whatever its amount
PayOff(ledger, doc_id, amount) ==
    [i \in 1..Len(ledger) |->
        IF ledger[i].doc_id = doc_id /\ Gt(ledger[i].amount_due, PaidEpsilon)
        THEN [ledger[i] EXCEPT !.amount_due = Zero, !.status = "paid"]
        ELSE ledger[i]]

\* the subledger after a payment of amount (> 0) on the open rows of doc_id
Pay(ledger, doc_id, amount) ==
    LET open == OpenRows(ledger, doc_id)
        amount_due == ledger[CHOOSE i \in open : \A j \in open : i <= j].amount_due
        new_amount_due == Sub(amount_due, Num(amount))
    IN  [i \in 1..Len(ledger) |->
            IF i \in open
            THEN [ledger[i] EXCEPT !.amount_due = new_amount_due,
                                   !.status = IF Le(new_amount_due, PaidEpsilon)
                                              THEN "paid" ELSE "partial_paid"]
            ELSE ledger[i]]

\* what the matching capability does in one run: there is no client, or
\* generate_content ends with APIError, or it returns a text
NoClient == [kind |-> "no client", text |-> ""]
MatchFailed == [kind |-> "APIError", text |-> ""]
Reply(text) == [kind |-> "text", text |-> text]
UnknownNumber == "INV-0000-00000"

\* the columns the prompt of ai_suggest_match selects
PromptColumns == {"doc_number", "amount_due", "due_date"}

\* With a client the call is reached only on a subledger that has the prompt
\* columns; otherwise every answer has the same effect and one stands for
\* all.  On a subledger without rows every document number is answered
\* like the first.
Matchers(s) ==
    IF PromptColumns \subseteq s.subledger_columns
    THEN {NoClient, MatchFailed, Reply("UNMATCHED"), Reply(UnknownNumber),
          Reply(s.Documents[1].doc_number)}
    ELSE {NoClient, Reply("UNMATCHED")}

\* reconciliation_agent.py:95: the subledger searched for a fuzzy match
subledger_for(amount, ap, ar) == IF amount < 0 THEN ap ELSE ar

\* the whole subledger
whole_subledger(table) == table

\* reconciliation_agent.py:97: the rows handed to the matcher
outstanding_subledger(table) ==
    SelectSeq(table, LAMBDA r : r.status \in {"outstanding", "partial_paid"})

\* ai_suggest_match(bank_txn, outstanding_docs): <<doc_number>>, <<>> for
\* None, or raises (KeyError) when outstanding_docs lacks a prompt column.
\* columns are those of the subledger as it was loaded; a subledger that
\* holds rows is the frame PostingEngineAgent built, which has the columns
\* of SubledgerRow only.
ai_suggest_match(matcher, columns, table, outstanding_docs) ==
    IF matcher.kind = "no client" THEN [raises |-> FALSE, guess |-> <<>>]
    ELSE IF ~(PromptColumns \subseteq columns) \/ table # <<>>
    THEN [raises |-> TRUE, guess |-> <<>>]
    ELSE IF matcher.kind = "APIError" \/ matcher.text \in {"UNMATCHED", "NONE", ""}
    THEN [raises |-> FALSE, guess |-> <<>>]
    ELSE [raises |-> FALSE, guess |-> <<matcher.text>>]

\* reconciliation_agent.py:110-145: the bank row txn applied to the first
\* document of matching
Settle(acc, docs, txn, matching) ==
    LET date == ToDatetimeCoerce(txn.date)
        doc_id == docs[CHOOSE i \in matching : \A j \in matching : i <= j].id
        abs_amount == IF txn.amount < 0 THEN -txn.amount ELSE txn.amount
        counter == acc.je_counter + Len(acc.je)
    IN
    IF txn.amount < 0 /\ OpenRows(acc.AP, doc_id) # {}
    THEN [acc EXCEPT !.je = @ \o PaymentEntries(counter, date.day, doc_id,
                                    "2100 Accounts Payable", "1100 Cash/Bank", abs_amount),
                     !.AP = Pay(@, doc_id, abs_amount),
                     !.AuditLog = Append(@, Audit("ReconciliationAgent", "CLEARED_AP", doc_id))]
    ELSE IF txn.amount > 0 /\ OpenRows(acc.AR, doc_id) # {}
    THEN [acc EXCEPT !.je = @ \o PaymentEntries(counter, date.day, doc_id,
                                    "1100 Cash/Bank", "1200 Accounts Receivable", abs_amount),
                     !.AR = Pay(@, doc_id, abs_amount),
                     !.AuditLog = Append(@, Audit("ReconciliationAgent", "CLEARED_AR", doc_id))]
    ELSE acc

\* One turn of the loop of run() for one bank row.  acc.AP is the copy of
\* AP, acc.AR and acc.AuditLog are the tables of the store, acc.je the
\* local list of new entries.
ReconcileOne(acc, docs, txn, matcher) ==
    LET date == ToDatetimeCoerce(txn.date)
        matching == { i \in 1..Len(docs) : docs[i].doc_number = txn.guess_doc_number }
        table == subledger_for(txn.amount, acc.AP, acc.AR)
        ai_guess == ai_suggest_match(matcher, acc.columns, table, outstanding_subledger(table))
        suggested == { i \in 1..Len(docs) : <<docs[i].doc_number>> = ai_guess.guess }
    IN
    IF acc.raised THEN acc
    ELSE IF date = NaT
    THEN [acc EXCEPT !.AuditLog = Append(@, Audit("ReconciliationAgent", "ERROR", "N/A"))]
    ELSE IF matching # {} THEN Settle(acc, docs, txn, matching)
    ELSE IF ai_guess.raises THEN [acc EXCEPT !.raised = TRUE]
    ELSE IF ai_guess.guess = <<>>
    THEN [acc EXCEPT !.AuditLog = Append(@, Audit("ReconciliationAgent", "UNMATCHED", "N/A"))]
    ELSE IF suggested = {}
    THEN \* matching_docs['id'].iloc[0] on no rows (IndexError)
         [acc EXCEPT !.raised = TRUE]
    ELSE Settle(acc, docs, txn, suggested)

RECURSIVE ReconcileAll(_, _, _, _)
ReconcileAll(acc, docs, feed, matcher) ==
    IF feed = <<>> THEN acc
    ELSE ReconcileAll(ReconcileOne(acc, docs, Head(feed), matcher), docs, Tail(feed), matcher)

\* ReconciliationAgent(dfs).run().  When it raises, AR and AuditLog keep what
\* was written in place; the copy of AP and the new entries are dropped.
ReconciliationAgent_run(s, matcher) ==
    LET acc == ReconcileAll([AP |-> ApplyCreditNote(s.AP), AR |-> s.AR, AuditLog |-> s.AuditLog,
                             je |-> <<>>, je_counter |-> Len(s.JournalEntries),
                             columns |-> s.subledger_columns, raised |-> FALSE],
                            s.Documents, s.BankFeed, matcher)
    IN  [store |-> IF acc.raised
                   THEN [s EXCEPT !.AR = acc.AR, !.AuditLog = acc.AuditLog]
                   ELSE [s EXCEPT !.AP = acc.AP, !.AR = acc.AR, !.AuditLog = acc.AuditLog,
                                  !.JournalEntries = @ \o acc.je],
         raised |-> acc.raised]

\* ------------------------------------- PostingEngineAgent.ai_verify_posting
\* str.upper() on the letters a-z
UpperChar(c) ==
    IF \E u \in DOMAIN LowerMap : LowerMap[u] = c
    THEN CHOOSE u \in DOMAIN LowerMap : LowerMap[u] = c
    ELSE c
Upper(s) == [i \in 1..Len(s) |-> UpperChar(s[i])]

S_TRUE == <<"T","R","U","E">>
S_FALSE == <<"F","A","L","S","E">>

\* what generate_content does for the verification prompt: a text, or an
\* APIError (raises)
VerifyAnswers ==
    { Answer(<<"T","R","U","E">>), Answer(<<"F","a","l","s","e",".">>),
      Answer(<<"N","o","t"," ","s","u","r","e">>), Raises }

\* ai_verify_posting: True without a client; with one, True unless the text
\* holds FALSE and not TRUE; False on APIError.  run() has no call of it.
ai_verify_posting(client, answer) ==
    IF ~client THEN TRUE
    ELSE IF answer.raises THEN FALSE
    ELSE Contains(Upper(answer.text), S_TRUE) \/ ~Contains(Upper(answer.text), S_FALSE)

\* ------------------------------------------------------- ReportingAgent
\* run(): nothing when JournalEntries is empty, otherwise the reports are
\* written and two REPORT_GEN entries logged (trial balance, dashboard)
ReportingAgent_run(s) ==
    IF s.JournalEntries = <<>> THEN s
    ELSE [s EXCEPT !.AuditLog = @ \o << Audit("ReportingAgent", "REPORT_GEN", "N/A"),
                                        Audit("ReportingAgent", "REPORT_GEN", "N/A") >>]

\* ------------------------------------------------------------ persistence
\* load_dataframes(): the tables of the CSV files of DATA_DIR
load_dataframes(files) == files

\* save_dataframes(dfs): the five tables written to <key>_updated.csv
Saved(s) ==
    [Documents |-> s.Documents, JournalEntries |-> s.JournalEntries, AP |-> s.AP,
     AR |-> s.AR, AuditLog |-> s.AuditLog]

\* ------------------------------------------------------------- pipelines
\* the four stages, reporting and the save, as run_flow and
\* run_async_pipeline run them on a loaded store; a stage that raises ends
\* the handler before anything is saved
Stages(s0, answers, inputs, matcher) ==
    LET v == ValidationAgent_run(s0, answers)
        e == ExceptionDeskAgent_run(v.store, FALSE, inputs)
        p == PostingEngine_run(e.store)
        r == ReconciliationAgent_run(p.store, matcher)
    IN  IF v.raised THEN [store |-> v.store, raised |-> TRUE]
        ELSE IF e.raised THEN [store |-> e.store, raised |-> TRUE]
        ELSE IF p.raised THEN [store |-> p.store, raised |-> TRUE]
        ELSE IF r.raised THEN [store |-> r.store, raised |-> TRUE]
        ELSE [store |-> ReportingAgent_run(r.store), raised |-> FALSE]

\* the documents trigger_workflow reads from the JSON files
Item(no, ty, cpt, cur, day, total, tax, ship, amount, hint) ==
    [doc_number |-> no, doc_type |-> ty, counterparty_type |-> cpt, currency |-> cur,
     issue_date |-> IsoText(day), total |-> Num(total), tax_amount |-> Num(tax),
     shipping |-> Num(ship), line_items |-> << [line_total |-> Num(amount), gl_hint |-> hint] >>]

Items ==
    { Item("INV-NEW-0001", "invoice", "supplier", "MYR", 15, 2160, 160, 0, 2000,
           <<"5100", "COGS">>),
      Item("DOC-INV-0001", "invoice", "supplier", "MYR", 16, 1000, 0, 0, 1000,
           <<"5000", "Consulting">>) }

\* pipeline.py:32-54: the Documents row built for an item; columns the row
\* does not have are empty cells after the concat
DocumentRecord(item) ==
    [id |-> item.doc_number, doc_type |-> item.doc_type, doc_number |-> item.doc_number,
     counterparty_type |-> item.counterparty_type, vendor_customer_id |-> "NaN",
     currency |-> item.currency, issue_date |-> item.issue_date, total |-> item.total,
     tax_amount |-> item.tax_amount, shipping |-> item.shipping, fx_rate |-> NaN,
     base_amount_total |-> NaN, status |-> S_EXTRACTED, reviewer_email |-> "NaN",
     review_url_approve |-> <<>>]

\* pipeline.py:57-70
LineItemRecords(item) ==
    [i \in 1..Len(item.line_items) |->
        [document_id |-> item.doc_number, line_no |-> i,
         line_total |-> item.line_items[i].line_total,
         gl_hint |-> item.line_items[i].gl_hint]]

RECURSIVE Intake(_, _)
\* pipeline.py:27-74: the store with the items' rows appended
Intake(s, items) ==
    IF items = <<>> THEN s
    ELSE Intake([s EXCEPT !.Documents = Append(@, DocumentRecord(Head(items))),
                          !.LineItems = @ \o LineItemRecords(Head(items))],
                Tail(items))

\* --------------------------------------------------------- review webhook
\* the status resolve_approval writes
ApprovedStatus == S_READY

\* main.py:73-76: the rows the approval applies to
ApprovalMatch(docs, doc_id, key) ==
    { i \in 1..Len(docs) : docs[i].id = doc_id /\ docs[i].status = S_REVIEW_PENDING }

Approve(docs, match) ==
    [i \in 1..Len(docs) |->
        IF i \in match THEN [docs[i] EXCEPT !.status = ApprovedStatus] ELSE docs[i]]

Response(doc_id, key, code) == [doc_id |-> doc_id, key |-> key, code |-> code]

\* ------------------------------------------------------------------ state
\* data:      the tables of the CSV files of DATA_DIR
\* dfs:       the dict of DataFrames a caller of the stages holds (a handler's
\*            own dict is gone when the handler returns)
\* outputs:   <<>> while nothing is saved, else << the *_updated.csv tables >>
\* responses: the answers of the review webhook, oldest first
\* last:      the operation that ran last, and whether it raised
\* calls:     the number of handler calls served
Ran(op, raised) == [op |-> op, raised |-> raised]

Init ==
    /\ \E docs \in InputDocuments, feed \in BankFeeds : data = Store(docs, feed)
    /\ dfs = load_dataframes(data)
    /\ outputs = <<>>
    /\ responses = <<>>
    /\ last = Ran("load_dataframes", FALSE)
    /\ calls = 0

Room == Len(dfs.AuditLog) < MaxAudit

\* ---------------------------------------------------- the stages, one run
ValidationRun ==
    /\ Room
    /\ \E answers \in AnswerChoices(ValidationAsks(dfs), Len(dfs.Documents)) :
         LET r == ValidationAgent_run(dfs, answers) IN
         /\ dfs' = r.store
         /\ last' = Ran("validation", r.raised)
    /\ UNCHANGED <<data, outputs, responses, calls>>

ExceptionDeskRun ==
    /\ Room
    /\ \E is_simulation \in BOOLEAN :
         \E inputs \in DeskInputs(dfs, is_simulation) :
            LET r == ExceptionDeskAgent_run(dfs, is_simulation, inputs) IN
            /\ dfs' = r.store
            /\ last' = Ran("exception_desk", r.raised)
    /\ UNCHANGED <<data, outputs, responses, calls>>

PostingRun ==
    /\ Room
    /\ LET r == PostingEngine_run(dfs) IN
       /\ dfs' = r.store
       /\ last' = Ran("posting", r.raised)
    /\ UNCHANGED <<data, outputs, responses, calls>>

ReconciliationRun ==
    /\ Room
    /\ \E matcher \in Matchers(dfs) :
         LET r == ReconciliationAgent_run(dfs, matcher) IN
         /\ dfs' = r.store
         /\ last' = Ran("reconciliation", r.raised)
    /\ UNCHANGED <<data, outputs, responses, calls>>

Next == ValidationRun \/ ExceptionDeskRun \/ PostingRun \/ ReconciliationRun

Spec == Init /\ [][Next]_vars

\* ------------------------------------------------------------ the handlers
\* a handler on the store s0 it loaded: the stages, then the save
Handle(op, s0) ==
    \E matcher \in Matchers(s0) :
      \E answers \in AnswerChoices(ValidationAsks(s0), Len(s0.Documents)) :
        \E inputs \in DeskInputs(ValidationAgent_run(s0, answers).store, FALSE) :
           LET r == Stages(s0, answers, inputs, matcher) IN
           /\ outputs' = IF r.raised THEN outputs ELSE << Saved(r.store) >>
           /\ last' = Ran(op, r.raised)

\* main.py run_flow
RunFlow ==
    /\ calls < MaxCalls
    /\ calls' = calls + 1
    /\ Handle("run_flow", load_dataframes(data))
    /\ UNCHANGED <<data, dfs, responses>>

\* pipeline.py run_async_pipeline
RunAsyncPipeline ==
    /\ calls < MaxCalls
    /\ calls' = calls + 1
    /\ \E item \in Items : Handle("run_async_pipeline", Intake(load_dataframes(data), <<item>>))
    /\ UNCHANGED <<data, dfs, responses>>

MissingDocId == "DOC-MISSING"
RequestIds == { data.Documents[i].id : i \in 1..Len(data.Documents) } \cup {MissingDocId}

\* main.py resolve_approval(doc_id, key)
ResolveApproval ==
    /\ calls < MaxCalls
    /\ calls' = calls + 1
    /\ \E doc_id \in RequestIds, key \in Keys :
         LET loaded == load_dataframes(data)
             match == ApprovalMatch(loaded.Documents, doc_id, key)
             approved == [loaded EXCEPT !.Documents = Approve(@, match)]
         IN  IF match # {}
             THEN /\ outputs' = << Saved(approved) >>
                  /\ responses' = Append(responses, Response(doc_id, key, "success"))
                  /\ last' = Ran("resolve_approval", FALSE)
             ELSE /\ outputs' = outputs
                  /\ responses' = Append(responses, Response(doc_id, key, "404"))
                  /\ last' = Ran("resolve_approval", TRUE)
    /\ UNCHANGED <<data, dfs>>

\* ------------------------------------------- a ledger that is not empty
\* a JournalEntries.csv that already holds entries of an earlier period, the
\* first of which has been removed: ids 2 and 3 remain
OldEntries ==
    << [je_id |-> 2, date |-> 1, doc_id |-> "DOC-OLD-0001", line_no |-> 0,
        account |-> "2100 Accounts Payable", debit |-> Num(3000), credit |-> Zero,
        fx_rate |-> Num(1), base_amount |-> Num(3000)],
       [je_id |-> 3, date |-> 1, doc_id |-> "DOC-OLD-0001", line_no |-> 0,
        account |-> "1100 Cash/Bank", debit |-> Zero, credit |-> Num(3000),
        fx_rate |-> Num(1), base_amount |-> Num(3000)] >>

\* an AP.csv of a later period: the invoice DOC-INV-0001 was posted and
\* partly paid before, 50.00 are still due
OpeningAP ==
    << [doc_id |-> "DOC-INV-0001", counterparty_id |-> "V001", total |-> Num(110000),
        amount_due |-> Num(5000), status |-> "partial_paid"] >>

InitLedger ==
    /\ \E docs \in InputDocuments, feed \in BankFeeds, ap \in {<<>>, OpeningAP} :
          data = [Store(IF ap = <<>> THEN docs
                        ELSE SetStatusById(docs, "DOC-INV-0001", S_posted), feed)
                    EXCEPT !.JournalEntries = OldEntries, !.AP = ap]
    /\ dfs = load_dataframes(data)
    /\ outputs = <<>>
    /\ responses = <<>>
    /\ last = Ran("load_dataframes", FALSE)
    /\ calls = 0

SpecLedger == InitLedger /\ [][Next]_vars

\* ---------------------------------------------- further rows of the files
\* Rows a Documents.csv may also hold: a sales order, a base-currency invoice
\* whose fx_rate and base_amount_total cells are empty, a foreign-currency
\* invoice dated in ISO form, and a second credit note with its invoice.
OtherCatalogue ==
    << Catalogue[7],
       Doc("DOC-SO-0001", "SO", "SO-2025-0001", "customer", "C001", "MYR", 9,
           Num(6000), Num(0), Num(0), Num(1), Num(6000), S_ready),
       Doc("DOC-INV-0005", "invoice", "INV-2025-00125", "vendor", "V001", "MYR", 9,
           Num(2000), Num(0), Num(0), NaN, NaN, S_ready),
       [ Doc("DOC-INV-0006", "invoice", "INV-ID-7791", "vendor", "V002", "IDR", 7,
             Num(400000), Num(0), Num(0), NaN, NaN, S_ready)
         EXCEPT !.issue_date = IsoText(7) ],
       Doc("DOC-INV-0007", "invoice", "INV-2025-00127", "vendor", "V001", "MYR", 10,
           Num(50000), Num(0), Num(0), Num(1), Num(50000), S_ready),
       Doc("DOC-CN-0002", "credit_note", "CN-2025-0004", "vendor", "V001", "MYR", 12,
           Num(-5000), Num(0), Num(0), Num(1), Num(-5000), S_ready) >>

OtherLines ==
    << Line("DOC-QUO-0001", 1, 9000, <<"4000", "Sales">>),
       Line("DOC-SO-0001", 1, 6000, <<"4000", "Sales">>),
       Line("DOC-INV-0005", 1, 2000, <<"5000", "Consulting">>),
       Line("DOC-INV-0006", 1, 400000, <<"5100", "COGS">>),
       Line("DOC-INV-0007", 1, 50000, <<"5000", "Consulting">>),
       Line("DOC-CN-0002", 1, -5000, <<"5000", "Consulting">>) >>

\* AP.csv and AR.csv with a header that also names doc_number
OtherColumns == DefaultColumns \cup {"doc_number"}

\* an FXRates.csv with one date written in ISO form
OtherFXRates ==
    FXRatesTable \o << [pair |-> <<"EUR", "MYR">>, date |-> IsoText(4), rate |-> Num(5)] >>

OtherDocuments ==
    { SelectSeq2(OtherCatalogue, idx) :
        idx \in { x \in SUBSET (1..Len(OtherCatalogue)) : Cardinality(x) \in 1..MaxDocs } }

InitOther ==
    /\ \E docs \in OtherDocuments, feed \in BankFeeds,
          columns \in {DefaultColumns, OtherColumns} :
          data = [Store(docs, feed) EXCEPT
                    !.LineItems = SelectSeq(OtherLines, LAMBDA l :
                                     \E i \in 1..Len(docs) : docs[i].id = l.document_id),
                    !.FXRates = OtherFXRates,
                    !.subledger_columns = columns]
    /\ dfs = load_dataframes(data)
    /\ outputs = <<>>
    /\ responses = <<>>
    /\ last = Ran("load_dataframes", FALSE)
    /\ calls = 0

SpecOther == InitOther /\ [][Next]_vars

NextFlow == RunFlow \/ RunAsyncPipeline \/ ResolveApproval

SpecFlow == Init /\ [][NextFlow]_vars

\* ------------------------------------------------------------- properties
RECURSIVE SumCells(_)
SumCells(cells) == IF cells = <<>> THEN Zero ELSE Add(Head(cells), SumCells(Tail(cells)))

\* the rows of a table that carry doc_id id
RowsOf(t, id) == SelectSeq(t, LAMBDA r : r.doc_id = id)

DebitSum(je, id) == SumCells([i \in 1..Len(RowsOf(je, id)) |-> RowsOf(je, id)[i].debit])
CreditSum(je, id) == SumCells([i \in 1..Len(RowsOf(je, id)) |-> RowsOf(je, id)[i].credit])

\* sum(debit) == sum(credit); a NaN sum equals nothing
Balanced(je, id) ==
    /\ IsNum(DebitSum(je, id))
    /\ IsNum(CreditSum(je, id))
    /\ Val(DebitSum(je, id)) = Val(CreditSum(je, id))

DocsOf(s) == { s.Documents[i] : i \in 1..Len(s.Documents) }

\* C1: for every document whose status is posted, the sum of debit equals
\* the sum of credit over the JournalEntries with its doc_id.
C1_PostedBalanced ==
    \A doc \in DocsOf(dfs) : doc.status = S_posted => Balanced(dfs.JournalEntries, doc.id)

\* C2: no document has status posted with zero journal entries.
C2_PostedHasJournals ==
    \A doc \in DocsOf(dfs) : doc.status = S_posted => RowsOf(dfs.JournalEntries, doc.id) # <<>>

\* C3: a run of PostingEngine over a store in which a document is already
\* posted appends no JournalEntries and no AP/AR row for that document and
\* leaves its status posted.
C3_PostedUntouched ==
    [][ last'.op = "posting" =>
          \A i \in 1..Len(dfs.Documents) :
             dfs.Documents[i].status = S_posted =>
                /\ dfs'.Documents[i].status = S_posted
                /\ RowsOf(dfs'.JournalEntries, dfs.Documents[i].id)
                     = RowsOf(dfs.JournalEntries, dfs.Documents[i].id)
                /\ RowsOf(dfs'.AP, dfs.Documents[i].id) = RowsOf(dfs.AP, dfs.Documents[i].id)
                /\ RowsOf(dfs'.AR, dfs.Documents[i].id) = RowsOf(dfs.AR, dfs.Documents[i].id) ]_vars

\* PostingEngine ran last, on a store in which a document was posted before
\* a reconciliation run, and that document has its journal entries
C3_Reposted ==
    /\ last = Ran("posting", FALSE)
    /\ \E i, j \in 1..Len(dfs.AuditLog) :
          /\ i < j
          /\ dfs.AuditLog[i].action = "POSTED"
          /\ dfs.AuditLog[j].actor = "ReconciliationAgent"
          /\ RowsOf(dfs.JournalEntries, dfs.AuditLog[i].doc_id) # <<>>
          /\ \E doc \in DocsOf(dfs) : doc.id = dfs.AuditLog[i].doc_id /\ doc.status = S_posted

\* the entries run() generates for doc balance
DraftsBalance(doc, lineItems) ==
    LET drafts == DraftsFor(doc, SelectSeq(lineItems, LAMBDA l : l.document_id = doc.id))
        debit == SumCells([i \in 1..Len(drafts) |-> drafts[i].debit])
        credit == SumCells([i \in 1..Len(drafts) |-> drafts[i].credit])
    IN  IsNum(debit) /\ IsNum(credit) /\ Val(debit) = Val(credit)

HasRule(doc) == doc.doc_type \in {"invoice", "utility_bill", "sales_invoice", "credit_note"}

\* C4: when the entries PostingEngine generates for a ready document do not
\* balance, the run leaves the document's status unchanged, adds none of its
\* entries and no AP/AR row, and appends a CRITICAL audit entry for it.
C4_ImbalanceRejected ==
    [][ last'.op = "posting" =>
          \A i \in 1..Len(dfs.Documents) :
             LET doc == dfs.Documents[i] IN
             (/\ IsReady(doc)
              /\ HasRule(doc)
              /\ ~PostingRaises(doc, SelectSeq(dfs.LineItems, LAMBDA l : l.document_id = doc.id))
              /\ ~DraftsBalance(doc, dfs.LineItems)) =>
                /\ dfs'.Documents[i].status = doc.status
                /\ RowsOf(dfs'.JournalEntries, doc.id) = RowsOf(dfs.JournalEntries, doc.id)
                /\ RowsOf(dfs'.AP, doc.id) = RowsOf(dfs.AP, doc.id)
                /\ RowsOf(dfs'.AR, doc.id) = RowsOf(dfs.AR, doc.id)
                /\ \E k \in 1..Len(dfs'.AuditLog) :
                      /\ dfs'.AuditLog[k].doc_id = doc.id
                      /\ dfs'.AuditLog[k].action = "CRITICAL" ]_vars

\* the rows of the saved Documents table with id id
SavedDocs(id) ==
    IF outputs = <<>> THEN {}
    ELSE { doc \in DocsOf(outputs[1]) : doc.id = id }

Granted(r) == r.code = "success"

\* C5: after a successful approve call the document it names has the status
\* PostingEngine selects on.
C5_ApprovedIsReady ==
    (last = Ran("resolve_approval", FALSE)) =>
        \A doc \in SavedDocs(responses[Len(responses)].doc_id) : IsReady(doc)

\* C6: the pipeline run that follows a successful approve call ends with the
\* approved document posted or skipped.
C6_ApprovedThenPosted ==
    [][ (/\ last = Ran("resolve_approval", FALSE)
         /\ last' = Ran("run_flow", FALSE)) =>
           /\ outputs' # <<>>
           /\ \A doc \in DocsOf(outputs'[1]) :
                 doc.id = responses[Len(responses)].doc_id =>
                    doc.status \in {S_posted, S_skipped} ]_vars

\* C7: an approve call repeated with the same (doc_id, token) after a
\* successful one fails.
C7_SecondApproveFails ==
    \A i, j \in 1..Len(responses) :
        (/\ i < j
         /\ Granted(responses[i])
         /\ responses[j].doc_id = responses[i].doc_id
         /\ responses[j].key = responses[i].key) => ~Granted(responses[j])

\* C8: an approve call succeeds only with the token issued for the document
\* when it was routed.
C8_TokenAuthorizes ==
    \A i \in 1..Len(responses) :
        Granted(responses[i]) =>
            \E doc \in DocsOf(data) :
                doc.review_url_approve = <<responses[i].doc_id, responses[i].key>>

\* C9: a document saved as posted or skipped keeps that status in every
\* later save.
C9_TerminalStays ==
    [][ (outputs # <<>> /\ outputs' # <<>>) =>
          \A doc \in DocsOf(outputs[1]) :
             doc.status \in {S_posted, S_skipped} =>
                \A later \in DocsOf(outputs'[1]) :
                   later.id = doc.id => later.status = doc.status ]_vars

S_extracted == <<"e","x","t","r","a","c","t","e","d">>
S_ExceptionColon == <<"E","x","c","e","p","t","i","o","n",":"," ">>

InVocabulary(status) ==
    \/ status \in {S_extracted, S_ready, S_REVIEW_PENDING, S_posted, S_skipped}
    \/ (Len(status) >= Len(S_ExceptionColon)
        /\ SubSeq(status, 1, Len(S_ExceptionColon)) = S_ExceptionColon)

\* C10: every status a saved document holds belongs to the vocabulary
\* extracted, ready, Exception: <reason>, REVIEW_PENDING, posted, skipped.
C10_StatusVocabulary ==
    outputs # <<>> => \A doc \in DocsOf(outputs[1]) : InVocabulary(doc.status)

\* C11: a posted document of a type that has a posting rule has its journal
\* entries in JournalEntries and its row in AP or AR, in every state of the
\* store, also after a run that stopped with an error.
C11_PostedComplete ==
    \A doc \in DocsOf(dfs) :
        (doc.status = S_posted /\ HasRule(doc)) =>
            /\ RowsOf(dfs.JournalEntries, doc.id) # <<>>
            /\ RowsOf(dfs.AP, doc.id) \o RowsOf(dfs.AR, doc.id) # <<>>

\* C12: no two journal entries share a je_id, whatever ids JournalEntries
\* held at the start.
C12_UniqueIds ==
    \A i, j \in 1..Len(dfs.JournalEntries) :
        i # j => dfs.JournalEntries[i].je_id # dfs.JournalEntries[j].je_id
\* the copy of AP the bank rows of a run work on: the netting pass applied,
\* or the table as it was when the run raised and dropped its copy
BankAP == IF last'.raised THEN dfs.AP ELSE ApplyCreditNote(dfs.AP)

\* what the bank rows of one run may do to one subledger row
RowStep(before, after) ==
    /\ IsNum(before.amount_due) =>
          IsNum(after.amount_due) /\ Val(after.amount_due) <= Val(before.amount_due)
    /\ before.status = "paid" => after = before
    /\ (before.status # "paid" /\ after.status = "paid") => Le(after.amount_due, PaidEpsilon)

\* C13: the bank rows of a ReconciliationEngine run never increase the
\* amount_due of an AP or AR row, set a row to paid only with amount_due at
\* or below 0.01, and leave a paid row and the journals of its document as
\* they are.
C13_PaidIsFinal ==
    [][ last'.op = "reconciliation" =>
          /\ Len(dfs'.AP) = Len(dfs.AP)
          /\ Len(dfs'.AR) = Len(dfs.AR)
          /\ \A i \in 1..Len(dfs.AP) :
                /\ RowStep(BankAP[i], dfs'.AP[i])
                /\ BankAP[i].status = "paid" =>
                      RowsOf(dfs'.JournalEntries, dfs.AP[i].doc_id)
                        = RowsOf(dfs.JournalEntries, dfs.AP[i].doc_id)
          /\ \A i \in 1..Len(dfs.AR) :
                /\ RowStep(dfs.AR[i], dfs'.AR[i])
                /\ dfs.AR[i].status = "paid" =>
                      RowsOf(dfs'.JournalEntries, dfs.AR[i].doc_id)
                        = RowsOf(dfs.JournalEntries, dfs.AR[i].doc_id) ]_vars

AuditIndices(action, doc_id) ==
    { k \in 1..Len(dfs.AuditLog) :
        dfs.AuditLog[k].action = action /\ dfs.AuditLog[k].doc_id = doc_id }

\* an AP row was paid by one bank payment and a whole later run has gone
\* over the bank feed again
C13_PaidThenRerun ==
    /\ last = Ran("reconciliation", FALSE)
    /\ \E i \in 1..Len(dfs.AP) :
          /\ dfs.AP[i].status = "paid"
          /\ Cardinality(AuditIndices("CLEARED_AP", dfs.AP[i].doc_id)) = 1
          /\ \E k \in AuditIndices("CLEARED_AP", dfs.AP[i].doc_id) :
                Cardinality({ e \in AuditIndices("ERROR", "N/A") : e > k }) >= 2

\* the payments journalled against the payable of doc_id
PaidOn(je, id) ==
    SumCells([i \in 1..Len(RowsOf(je, id)) |->
                IF RowsOf(je, id)[i].account = "2100 Accounts Payable"
                THEN RowsOf(je, id)[i].debit ELSE Zero])

CreditNoteApplied(ap) ==
    \E i \in 1..Len(ap) : ap[i].doc_id = CN_ID /\ ap[i].status = "cleared_applied"

\* C14: once the credit-note row is cleared_applied a further netting pass
\* changes nothing, and the invoice's amount_due is its total, plus the
\* credit note's total if and only if the note has been applied, less the
\* payments made on it.
C14_CreditNoteOnce ==
    /\ CreditNoteApplied(dfs.AP) => ApplyCreditNote(dfs.AP) = dfs.AP
    /\ \A j \in 1..Len(dfs.AP) :
          dfs.AP[j].doc_id = INV_ID =>
             dfs.AP[j].amount_due =
                Sub(Add(dfs.AP[j].total,
                        IF CreditNoteApplied(dfs.AP)
                        THEN RowsOf(dfs.AP, CN_ID)[1].total ELSE Zero),
                    PaidOn(dfs.JournalEntries, INV_ID))

\* the netting pass of a completed run has applied the credit note to the
\* invoice
C14_Netted ==
    /\ last = Ran("reconciliation", FALSE)
    /\ CreditNoteApplied(dfs.AP)
    /\ \E j \in 1..Len(dfs.AP) :
          /\ dfs.AP[j].doc_id = INV_ID
          /\ dfs.AP[j].amount_due # dfs.AP[j].total

\* the journal entries a step appended
Appended == SubSeq(dfs'.JournalEntries, Len(dfs.JournalEntries) + 1, Len(dfs'.JournalEntries))

\* the two entries and the subledger row a payment of amount must leave
PaymentMade(entries, account_dr, account_cr, amount, before, after) ==
    /\ Len(entries) = 2
    /\ entries[1].account = account_dr
    /\ entries[1].debit = Num(amount)
    /\ entries[1].credit = Zero
    /\ entries[2].account = account_cr
    /\ entries[2].debit = Zero
    /\ entries[2].credit = Num(amount)
    /\ after.amount_due = Num(Val(before.amount_due) - amount)
    /\ after.status = IF Val(before.amount_due) - amount <= PaidEpsilon
                      THEN "paid" ELSE "partial_paid"

\* the documents a bank row resolves to
Resolved(txn) ==
    { doc \in DocsOf(dfs) : doc.doc_number = txn.guess_doc_number }

\* C15: in a completed ReconciliationEngine run, a bank row with a valid
\* date that resolves to a document with an open subledger row appends two
\* entries for abs(amount) (Dr 2100 / Cr 1100 for a payment, Dr 1100 /
\* Cr 1200 for a collection), reduces amount_due by abs(amount) and sets
\* the row to paid at 0.01 or below, else to partial_paid.
C15_PaymentApplied ==
    [][ last' = Ran("reconciliation", FALSE) =>
          \A k \in 1..Len(dfs.BankFeed) :
             LET txn == dfs.BankFeed[k] IN
             \A doc \in Resolved(txn) :
                /\ (/\ ToDatetimeCoerce(txn.date) # NaT
                    /\ txn.amount < 0) =>
                      \A i \in OpenRows(BankAP, doc.id) :
                         PaymentMade(RowsOf(Appended, doc.id), "2100 Accounts Payable",
                                     "1100 Cash/Bank", -txn.amount, BankAP[i], dfs'.AP[i])
                /\ (/\ ToDatetimeCoerce(txn.date) # NaT
                    /\ txn.amount > 0) =>
                      \A i \in OpenRows(dfs.AR, doc.id) :
                         PaymentMade(RowsOf(Appended, doc.id), "1100 Cash/Bank",
                                     "1200 Accounts Receivable", txn.amount, dfs.AR[i],
                                     dfs'.AR[i]) ]_vars

\* the example: a payment of 1100.00 against an amount_due of 1100.00
C15_PaidInFull ==
    /\ last = Ran("reconciliation", FALSE)
    /\ \E i \in 1..Len(dfs.AP) :
          /\ dfs.AP[i].total = Num(110000)
          /\ dfs.AP[i].amount_due = Zero
          /\ dfs.AP[i].status = "paid"
          /\ \E e \in 1..Len(dfs.JournalEntries) :
                /\ dfs.JournalEntries[e].doc_id = dfs.AP[i].doc_id
                /\ dfs.JournalEntries[e].account = "2100 Accounts Payable"
                /\ dfs.JournalEntries[e].debit = Num(110000)
\* the line items of a document
LinesFor(s, doc) == SelectSeq(s.LineItems, LAMBDA l : l.document_id = doc.id)

IsVendorInvoice(doc) == doc.doc_type \in {"invoice", "utility_bill"}

\* the rows of entries on account with line_no 0
OnAccount(entries, account) ==
    SelectSeq(entries, LAMBDA e : e.account = account /\ e.line_no = 0)

\* C16: a completed PostingEngine run appends, for a ready invoice or
\* utility_bill, one debit per line item on the line's account code for
\* line_total x fx_rate, one debit on 1400 Input Tax for tax_amount x fx_rate
\* only when tax_amount > 0, one debit on 5300 for shipping x fx_rate only
\* when shipping > 0, and one credit on 2100 Accounts Payable for
\* base_amount_total; the document becomes posted and gets an AP row.
C16_VendorInvoicePosted ==
    [][ last' = Ran("posting", FALSE) =>
          \A i \in 1..Len(dfs.Documents) :
             LET doc == dfs.Documents[i]
                 lines == LinesFor(dfs, doc)
                 new == RowsOf(Appended, doc.id)
                 tax == OnAccount(new, "1400 Input Tax")
                 ship == OnAccount(new, "5300 Office Supplies")
                 ap == OnAccount(new, "2100 Accounts Payable")
             IN  (IsReady(doc) /\ IsVendorInvoice(doc)) =>
                    /\ dfs'.Documents[i].status = S_posted
                    /\ Len(new) = Len(lines) + Len(tax) + Len(ship) + 1
                    /\ \A l \in 1..Len(lines) :
                          /\ new[l].line_no = lines[l].line_no
                          /\ new[l].account = lines[l].gl_hint[1]
                          /\ new[l].debit = Mul(lines[l].line_total, doc.fx_rate)
                          /\ new[l].credit = Zero
                    /\ IF Gt(doc.tax_amount, 0)
                       THEN /\ Len(tax) = 1
                            /\ tax[1].debit = Mul(doc.tax_amount, doc.fx_rate)
                            /\ tax[1].credit = Zero
                       ELSE tax = <<>>
                    /\ IF Gt(doc.shipping, 0)
                       THEN /\ Len(ship) = 1
                            /\ ship[1].debit = Mul(doc.shipping, doc.fx_rate)
                            /\ ship[1].credit = Zero
                       ELSE ship = <<>>
                    /\ Len(ap) = 1
                    /\ ap[1].debit = Zero
                    /\ ap[1].credit = doc.base_amount_total
                    /\ \E r \in 1..Len(dfs'.AP) :
                          /\ dfs'.AP[r].doc_id = doc.id
                          /\ dfs'.AP[r].amount_due = doc.base_amount_total
                          /\ dfs'.AP[r].status = "outstanding" ]_vars

Entry(account, debit, credit) == [account |-> account, debit |-> debit, credit |-> credit]

\* the example: total 1100.00 = 1000.00 + 80.00 + 20.00 at fx_rate 1
C16_Example ==
    /\ last = Ran("posting", FALSE)
    /\ \E doc \in DocsOf(dfs) :
          /\ doc.status = S_posted
          /\ [i \in 1..Len(RowsOf(dfs.JournalEntries, doc.id)) |->
                Entry(RowsOf(dfs.JournalEntries, doc.id)[i].account,
                      RowsOf(dfs.JournalEntries, doc.id)[i].debit,
                      RowsOf(dfs.JournalEntries, doc.id)[i].credit)]
             = << Entry("5000", Num(100000), Zero),
                  Entry("1400 Input Tax", Num(8000), Zero),
                  Entry("5300 Office Supplies", Num(2000), Zero),
                  Entry("2100 Accounts Payable", Zero, Num(110000)) >>

\* the day of a date cell of FXRates that the lookup can read
Readable(cell) == cell.fmt \in {"dmy", "ts"}

\* the rows of FXRates of pair currency/base dated on or before day
RateRows(fx, currency, day) ==
    { i \in 1..Len(fx) :
        /\ fx[i].pair = <<currency, BaseCurrency>>
        /\ Readable(fx[i].date)
        /\ fx[i].date.day <= day }

ForeignCurrencies == {"IDR", "USD", "EUR"}

\* C17: for a foreign currency and an issue date, the lookup returns the
\* rate of the FXRates row of pair currency/base with the greatest date on
\* or before the issue date, and none exactly when there is no such row.
C17_LatestRate ==
    \A day \in 1..MaxDay, currency \in ForeignCurrencies :
        LET rows == RateRows(dfs.FXRates, currency, day)
            rate == get_fx_rate(dfs.FXRates, DateText(day), currency)
        IN  IF rows = {} THEN rate = <<>>
            ELSE \E i \in rows :
                    /\ \A j \in rows : dfs.FXRates[j].date.day <= dfs.FXRates[i].date.day
                    /\ rate = << dfs.FXRates[i].rate >>

\* a validation run has looked up the rate of a document dated after two
\* rows of its pair and taken the later one
C17_LaterOfTwo ==
    /\ last.op = "validation"
    /\ \E doc \in DocsOf(dfs) :
          /\ doc.currency # BaseCurrency
          /\ Cardinality(RateRows(dfs.FXRates, doc.currency, doc.issue_date.day)) = 2
          /\ \E i \in RateRows(dfs.FXRates, doc.currency, doc.issue_date.day) :
                /\ \A j \in RateRows(dfs.FXRates, doc.currency, doc.issue_date.day) :
                      dfs.FXRates[j].date.day <= dfs.FXRates[i].date.day
                /\ doc.fx_rate = dfs.FXRates[i].rate

\* a ready document in a foreign currency without a usable rate
LacksRate(s, doc) ==
    /\ IsReady(doc)
    /\ doc.currency # BaseCurrency
    /\ RateRows(s.FXRates, doc.currency, doc.issue_date.day) = {}

IsFXException(status) ==
    /\ Len(status) >= Len(S_ExceptionFX)
    /\ SubSeq(status, 1, Len(S_ExceptionFX)) = S_ExceptionFX

\* C18: in a ValidationEnricher run in which the explanation capability
\* returns its recommendations, every ready foreign-currency document
\* without a rate gets the status 'Exception: FX - ' followed by at most 50
\* characters of a recommendation and exactly one new AuditLog entry, and
\* the other ready foreign-currency documents of the run get their rate.
C18_FXException ==
    [][ last' = Ran("validation", FALSE) =>
          \A i \in 1..Len(dfs.Documents) :
             LET doc == dfs.Documents[i]
                 status == dfs'.Documents[i].status
                 tail == SubSeq(status, Len(S_ExceptionFX) + 1, Len(status))
             IN  /\ LacksRate(dfs, doc) =>
                       /\ IsFXException(status)
                       /\ Len(tail) <= RecommendationChars
                       /\ \E a \in ExplainAnswers : ~a.raises /\ Contains(a.text, tail)
                       /\ Len(RowsOf(dfs'.AuditLog, doc.id))
                            = Len(RowsOf(dfs.AuditLog, doc.id)) + 1
                 /\ (IsReady(doc) /\ doc.currency # BaseCurrency /\ ~LacksRate(dfs, doc)) =>
                       /\ dfs'.Documents[i].status = S_ready
                       /\ IsNum(dfs'.Documents[i].fx_rate) ]_vars

\* a run has set a document without a rate to the FX exception, cut to 50
\* characters, and has gone on to give a later document its rate
C18_ExceptionThenNext ==
    /\ last = Ran("validation", FALSE)
    /\ \E i, j \in 1..Len(dfs.Documents) :
          /\ i < j
          /\ IsFXException(dfs.Documents[i].status)
          /\ Len(dfs.Documents[i].status) = Len(S_ExceptionFX) + RecommendationChars
          /\ dfs.Documents[j].currency # BaseCurrency
          /\ dfs.Documents[j].status = S_ready
          /\ IsNum(dfs.Documents[j].fx_rate)

\* C19: an ExceptionRouter pass leaves every document whose status contained
\* Exception, and that was not fixed by hand, in REVIEW_PENDING with a
\* non-empty reviewer address and one new ROUTE_TO_HUMAN audit entry.
C19_ExceptionsRouted ==
    [][ last' = Ran("exception_desk", FALSE) =>
          \A i \in 1..Len(dfs.Documents) :
             (/\ Contains(dfs.Documents[i].status, S_Exception)
              /\ dfs'.Documents[i].status # S_ready) =>
                /\ dfs'.Documents[i].status = S_REVIEW_PENDING
                /\ dfs'.Documents[i].reviewer_email \notin {"NaN", ""}
                /\ \E k \in Len(dfs.AuditLog) + 1 .. Len(dfs'.AuditLog) :
                      /\ dfs'.AuditLog[k].action = "ROUTE_TO_HUMAN"
                      /\ dfs'.AuditLog[k].doc_id = dfs.Documents[i].id ]_vars

\* C20: a PostingEngine run commits every ready document whose own
\* processing does not fail, also when another document of the run fails.
C20_OthersCommitted ==
    [][ last'.op = "posting" =>
          \A i \in 1..Len(dfs.Documents) :
             LET doc == dfs.Documents[i] IN
             (IsReady(doc) /\ ~PostingRaises(doc, LinesFor(dfs, doc))) =>
                /\ dfs'.Documents[i].status \in {S_posted, S_skipped}
                /\ HasRule(doc) => RowsOf(dfs'.JournalEntries, doc.id) # <<>> ]_vars

\* C21: whatever an external capability does when it is called (an answer, or
\* an error of any kind), the run of ValidationAgent, ExceptionDeskAgent or
\* ReconciliationAgent that called it finishes its batch: the run does not
\* end with the error.
C21_CapabilityFailureContained ==
    last.op \in {"validation", "exception_desk", "reconciliation"} => ~last.raised

\* every document is posted or skipped, and every subledger row of a document
\* a bank row names is paid or cleared_applied
Finished(s) ==
    /\ \A i \in 1..Len(s.Documents) : s.Documents[i].status \in {S_posted, S_skipped}
    /\ \A k \in 1..Len(s.BankFeed) : \A i \in 1..Len(s.Documents) :
          s.Documents[i].doc_number = s.BankFeed[k].guess_doc_number =>
             /\ \A j \in AllRows(s.AP, s.Documents[i].id) :
                   s.AP[j].status \in {"paid", "cleared_applied"}
             /\ \A j \in AllRows(s.AR, s.Documents[i].id) :
                   s.AR[j].status \in {"paid", "cleared_applied"}

IsPrefix(log, later) == Len(log) <= Len(later) /\ SubSeq(later, 1, Len(log)) = log

\* C23: the audit log only grows at its end: once a log has been written,
\* every later operation (a pipeline run or the resume action) leaves a log
\* of which the earlier one is a prefix.
C23_AuditLogAppendOnly ==
    [][outputs # <<>> =>
          /\ outputs' # <<>>
          /\ IsPrefix(outputs[1].AuditLog, outputs'[1].AuditLog)]_vars

\* the cell holds no date in any form
Unreadable(cell) == cell.fmt \in {"bad", "NaT"}

\* the bank rows with a date, and the documents they name, for which the run
\* finds an open row: a payment when the amount is negative and the document
\* has an open AP row, a collection when it is positive with an open AR row
Payable(s) ==
    { k \in 1..Len(s.BankFeed) :
        /\ ~Unreadable(s.BankFeed[k].date)
        /\ \E i \in 1..Len(s.Documents) :
              /\ s.Documents[i].doc_number = s.BankFeed[k].guess_doc_number
              /\ \/ s.BankFeed[k].amount < 0
                    /\ OpenRows(ApplyCreditNote(s.AP), s.Documents[i].id) # {}
                 \/ s.BankFeed[k].amount > 0
                    /\ OpenRows(s.AR, s.Documents[i].id) # {} }

\* what the dated bank rows of one sign (-1 payments, 1 collections) take off
\* the open rows of doc_id in one run; the feed names a document in at most
\* one dated row
PaidBy(s, doc_id, sign) ==
    LET rows == { k \in Payable(s) :
                    /\ s.BankFeed[k].amount * sign > 0
                    /\ \E i \in 1..Len(s.Documents) :
                          /\ s.Documents[i].id = doc_id
                          /\ s.Documents[i].doc_number = s.BankFeed[k].guess_doc_number }
    IN  IF rows = {} THEN 0 ELSE s.BankFeed[CHOOSE k \in rows : TRUE].amount * sign

NewAudit == SubSeq(dfs'.AuditLog, Len(dfs.AuditLog) + 1, Len(dfs'.AuditLog))

\* C24: in a reconciliation run that completes, a bank row whose date cannot
\* be read adds one ERROR entry to the audit log and nothing else: the run
\* logs as many ERROR entries as there are such rows, the journal entries it
\* adds are the pairs of the rows with a date (none carries the amount of an
\* undated row), and the rows after an undated row are reconciled as usual.
C24_UnreadableDateSkipped ==
    [][last' = Ran("reconciliation", FALSE) =>
          LET undated == { k \in 1..Len(dfs.BankFeed) : Unreadable(dfs.BankFeed[k].date) }
              errors == { n \in 1..Len(NewAudit) : NewAudit[n].action = "ERROR" }
              cleared == { n \in 1..Len(NewAudit) :
                             NewAudit[n].action \in {"CLEARED_AP", "CLEARED_AR"} }
          IN  /\ Cardinality(errors) = Cardinality(undated)
              /\ Cardinality(cleared) = Cardinality(Payable(dfs))
              /\ Len(Appended) = 2 * Cardinality(Payable(dfs))
              /\ \A k \in undated : \A n \in 1..Len(Appended) :
                    /\ Appended[n].debit # Num(-dfs.BankFeed[k].amount)
                    /\ Appended[n].credit # Num(-dfs.BankFeed[k].amount)
              /\ \A j \in 1..Len(dfs.AP) :
                    dfs'.AP[j].amount_due =
                       Sub(ApplyCreditNote(dfs.AP)[j].amount_due,
                           Num(PaidBy(dfs, dfs.AP[j].doc_id, -1)))
              /\ \A j \in 1..Len(dfs.AR) :
                    dfs'.AR[j].amount_due =
                       Sub(dfs.AR[j].amount_due, Num(PaidBy(dfs, dfs.AR[j].doc_id, 1)))
              /\ \A k \in undated : \A j \in Payable(dfs) :
                    j > k => \E n \in cleared, m \in errors : m < n]_vars

\* a completed run logged the undated row and then collected on the sales
\* invoice named by the row after it
C24_LaterRowCollected ==
    /\ last = Ran("reconciliation", FALSE)
    /\ \E m, n \in 1..Len(dfs.AuditLog) :
          /\ m < n
          /\ dfs.AuditLog[m].action = "ERROR"
          /\ dfs.AuditLog[n].action = "CLEARED_AR"
          /\ \A j \in m..n : dfs.AuditLog[j].actor = "ReconciliationAgent"
    /\ \E j \in 1..Len(dfs.AR) : dfs.AR[j].status = "partial_paid"

\* C25: a posting run turns every ready quotation and every ready SO into
\* skipped, and in no state is there a journal entry, an AP row or an AR row
\* of a quotation or an SO.
C25_InformationalSkipped ==
    [][/\ last' = Ran("posting", FALSE) =>
             \A i \in 1..Len(dfs.Documents) :
                dfs.Documents[i].status = S_ready
                /\ dfs.Documents[i].doc_type \in {"quotation", "SO"}
                   => dfs'.Documents[i].status = S_skipped
       /\ \A i \in 1..Len(dfs'.Documents) :
             dfs'.Documents[i].doc_type \in {"quotation", "SO"} =>
                /\ RowsOf(dfs'.JournalEntries, dfs'.Documents[i].id) = <<>>
                /\ AllRows(dfs'.AP, dfs'.Documents[i].id) = {}
                /\ AllRows(dfs'.AR, dfs'.Documents[i].id) = {}]_vars

\* a posting run has skipped a sales order and posted the invoice beside it
C25_OrderSkipped ==
    /\ \E i \in 1..Len(dfs.Documents) :
          dfs.Documents[i].doc_type = "SO" /\ dfs.Documents[i].status = S_skipped
    /\ \E n \in 1..Len(dfs.AuditLog) : dfs.AuditLog[n].action = "SKIPPED_INFO_DOC"
    /\ Len(dfs.JournalEntries) > 0

\* C26: when the verification capability answers, for a ready document the
\* engine has posting rules for, that the posting is not safe (or its call
\* fails), a posting run does not set the document to posted and adds no
\* journal entry and no subledger row for it.
C26_UnsafeNotPosted ==
    [][last'.op = "posting" =>
          \A i \in 1..Len(dfs.Documents) : \A answer \in VerifyAnswers :
             /\ dfs.Documents[i].status = S_ready
             /\ HasRule(dfs.Documents[i])
             /\ ~ai_verify_posting(TRUE, answer)
             => /\ dfs'.Documents[i].status # S_posted
                /\ RowsOf(dfs'.JournalEntries, dfs.Documents[i].id)
                      = RowsOf(dfs.JournalEntries, dfs.Documents[i].id)
                /\ AllRows(dfs'.AP, dfs.Documents[i].id) = AllRows(dfs.AP, dfs.Documents[i].id)
                /\ AllRows(dfs'.AR, dfs.Documents[i].id) = AllRows(dfs.AR, dfs.Documents[i].id)]_vars

\* C27: after a validation run that completes, every ready document in the
\* base currency has fx_rate 1 and base_amount_total equal to its total.
C27_BaseCurrencyFilled ==
    last = Ran("validation", FALSE) =>
       \A i \in 1..Len(dfs.Documents) :
          dfs.Documents[i].status = S_ready /\ dfs.Documents[i].currency = BaseCurrency
          => /\ dfs.Documents[i].fx_rate = Num(1)
             /\ dfs.Documents[i].base_amount_total = dfs.Documents[i].total

\* the calendar day a date cell stands for: <<day>>, or <<>> when it holds
\* no date
DateValue(cell) == IF cell.fmt \in {"dmy", "iso", "ts"} THEN <<cell.day>> ELSE <<>>

\* C28: validation runs leave the FXRates table as it was loaded: the same
\* rows, each with the same pair, the same date and the same rate.
C28_FXRatesKept ==
    /\ Len(dfs.FXRates) = Len(data.FXRates)
    /\ \A i \in 1..Len(data.FXRates) :
          /\ dfs.FXRates[i].pair = data.FXRates[i].pair
          /\ dfs.FXRates[i].rate = data.FXRates[i].rate
          /\ DateValue(dfs.FXRates[i].date) = DateValue(data.FXRates[i].date)

\* the FXRates rows of the document's pair dated on or before its issue date
RowsOnOrBefore(fx, doc) ==
    { i \in 1..Len(fx) :
        /\ fx[i].pair = <<doc.currency, BaseCurrency>>
        /\ DateValue(fx[i].date) # <<>>
        /\ DateValue(doc.issue_date) # <<>>
        /\ DateValue(fx[i].date)[1] <= DateValue(doc.issue_date)[1] }

\* C29: a validation run moves a ready document to an Exception status only
\* when FXRates has no row of its pair dated on or before its issue date; a
\* document in the base currency is never moved.
C29_RejectedOnlyWithoutRate ==
    [][last'.op = "validation" =>
          \A i \in 1..Len(dfs.Documents) :
             /\ dfs.Documents[i].status = S_ready
             /\ Contains(dfs'.Documents[i].status, S_Exception)
             => /\ dfs.Documents[i].currency # BaseCurrency
                /\ RowsOnOrBefore(data.FXRates, dfs.Documents[i]) = {}]_vars

\* the invoice each credit note of the files was issued against
AppliesTo ==
    [id \in {"DOC-CN-0001", "DOC-CN-0002"} |->
        IF id = "DOC-CN-0001" THEN "DOC-INV-0001" ELSE "DOC-INV-0007"]

\* C30: after a reconciliation run that completes, every credit note whose
\* AP row and whose invoice's AP row are both in the subledger has been
\* applied: its row is cleared_applied and the amount due on the invoice is
\* at most the invoice total less the credit.
C30_EveryCreditNoteNetted ==
    last = Ran("reconciliation", FALSE) =>
       \A c, v \in 1..Len(dfs.AP) :
          /\ dfs.AP[c].doc_id \in DOMAIN AppliesTo
          /\ dfs.AP[v].doc_id = AppliesTo[dfs.AP[c].doc_id]
          => /\ dfs.AP[c].status = "cleared_applied"
             /\ Le(dfs.AP[v].amount_due, Val(dfs.AP[v].total) + Val(dfs.AP[c].total))

\* the dated bank rows whose guessed number no document has
Unmatched(s) ==
    { k \in 1..Len(s.BankFeed) :
        /\ ~Unreadable(s.BankFeed[k].date)
        /\ \A i \in 1..Len(s.Documents) :
              s.Documents[i].doc_number # s.BankFeed[k].guess_doc_number }

\* the rows of a subledger that are still open by their status
OpenByStatus(table) ==
    SelectSeq2(table, { i \in 1..Len(table) : table[i].status = "outstanding"
                                               \/ table[i].status = "partial_paid" })

\* C31: for a bank row whose guessed number no document has, the matcher is
\* given the rows with status outstanding or partial_paid of AP (amount < 0)
\* or of AR (amount > 0); and in a run in which the matcher gives no match,
\* each such row adds one UNMATCHED audit entry and nothing else: the journal
\* entries and the subledger changes of the run are those of the matched
\* rows, which are reconciled whether they come before or after.
C31_UnmatchedLogged ==
    [][last'.op = "reconciliation" =>
          /\ \A k \in Unmatched(dfs) :
                LET amount == dfs.BankFeed[k].amount
                    ap == ApplyCreditNote(dfs.AP)
                IN  /\ amount < 0 =>
                          outstanding_subledger(subledger_for(amount, ap, dfs.AR))
                             = OpenByStatus(ap)
                    /\ amount > 0 =>
                          outstanding_subledger(subledger_for(amount, ap, dfs.AR))
                             = OpenByStatus(dfs.AR)
          /\ ~last'.raised =>
                LET unmatched == { n \in 1..Len(NewAudit) : NewAudit[n].action = "UNMATCHED" }
                    cleared == { n \in 1..Len(NewAudit) :
                                   NewAudit[n].action \in {"CLEARED_AP", "CLEARED_AR"} }
                IN  /\ Cardinality(unmatched) = Cardinality(Unmatched(dfs))
                    /\ Cardinality(cleared) = Cardinality(Payable(dfs))
                    /\ Len(Appended) = 2 * Cardinality(Payable(dfs))
                    /\ \A n \in 1..Len(Appended) :
                          \E k \in Payable(dfs) :
                             /\ k \notin Unmatched(dfs)
                             /\ Appended[n].debit \in {Zero, Num(dfs.BankFeed[k].amount),
                                                       Num(-dfs.BankFeed[k].amount)}
                    /\ \A j \in 1..Len(dfs.AP) :
                          (\A k \in Payable(dfs) : \A i \in 1..Len(dfs.Documents) :
                              dfs.Documents[i].doc_number = dfs.BankFeed[k].guess_doc_number
                                 => dfs.Documents[i].id # dfs.AP[j].doc_id)
                          => dfs'.AP[j] = ApplyCreditNote(dfs.AP)[j]
                    /\ \A j \in 1..Len(dfs.AR) :
                          (\A k \in Payable(dfs) : \A i \in 1..Len(dfs.Documents) :
                              dfs.Documents[i].doc_number = dfs.BankFeed[k].guess_doc_number
                                 => dfs.Documents[i].id # dfs.AR[j].doc_id)
                          => dfs'.AR[j] = dfs.AR[j]]_vars

\* a completed run logged a row as unmatched and then collected on the sales
\* invoice named by a later row
C31_UnmatchedThenCollected ==
    /\ last = Ran("reconciliation", FALSE)
    /\ \E m, n \in 1..Len(dfs.AuditLog) :
          /\ m < n
          /\ dfs.AuditLog[m].action = "UNMATCHED"
          /\ dfs.AuditLog[n].action = "CLEARED_AR"
          /\ \A j \in m..n : dfs.AuditLog[j].actor = "ReconciliationAgent"

\* C32: a posting run that completes leaves, for each document it posts and has
\* rules for, exactly one subledger row, with status outstanding: in AP with
\* amount_due = base_amount_total for an invoice or utility bill, in AR with
\* amount_due = total for a sales invoice, in AP with amount_due = total for
\* a credit note; and no document ever has more than one row in AP and AR
\* together.
C32_OneSubledgerRow ==
    [][/\ last' = Ran("posting", FALSE) =>
             \A i \in 1..Len(dfs.Documents) :
                LET doc == dfs.Documents[i]
                    ap == AllRows(dfs'.AP, doc.id)
                    ar == AllRows(dfs'.AR, doc.id)
                IN  doc.status = S_ready /\ dfs'.Documents[i].status = S_posted /\ HasRule(doc)
                    => /\ Cardinality(ap) + Cardinality(ar) = 1
                       /\ \A j \in ap :
                             /\ doc.doc_type \in {"invoice", "utility_bill", "credit_note"}
                             /\ dfs'.AP[j].status = "outstanding"
                             /\ dfs'.AP[j].amount_due =
                                   IF doc.doc_type = "credit_note" THEN doc.total
                                   ELSE doc.base_amount_total
                       /\ \A j \in ar :
                             /\ doc.doc_type = "sales_invoice"
                             /\ dfs'.AR[j].status = "outstanding"
                             /\ dfs'.AR[j].amount_due = doc.total
       /\ \A i \in 1..Len(dfs'.Documents) :
             Cardinality(AllRows(dfs'.AP, dfs'.Documents[i].id))
                + Cardinality(AllRows(dfs'.AR, dfs'.Documents[i].id)) <= 1]_vars

\* one posting run has written the AP row of a credit note, with its negative
\* total, and the AR row of a sales invoice
C32_RowsWritten ==
    /\ last = Ran("posting", FALSE)
    /\ \E j \in 1..Len(dfs.AP) :
          /\ dfs.AP[j].doc_id = CN_ID
          /\ dfs.AP[j].status = "outstanding"
          /\ Lt(dfs.AP[j].amount_due, 0)
    /\ \E j \in 1..Len(dfs.AR) :
          dfs.AR[j].status = "outstanding" /\ Gt(dfs.AR[j].amount_due, 0)

\* C33: a run of the exception desk leaves every document that is
\* REVIEW_PENDING as it is (status, reviewer address, approve link with its
\* token) and appends no audit entry for it.
C33_PendingNotSelected ==
    [][last'.op = "exception_desk" =>
          \A i \in 1..Len(dfs.Documents) :
             dfs.Documents[i].status = S_REVIEW_PENDING =>
                /\ dfs'.Documents[i] = dfs.Documents[i]
                /\ \A n \in 1..Len(NewAudit) : NewAudit[n].doc_id # dfs.Documents[i].id]_vars

\* a desk run has routed one document while another was already waiting for
\* review, and the one waiting still has the link it was loaded with
C33_RoutedBesidePending ==
    /\ last = Ran("exception_desk", FALSE)
    /\ \E n \in 1..Len(dfs.AuditLog) :
          /\ dfs.AuditLog[n].action = "ROUTE_TO_HUMAN"
          /\ dfs.AuditLog[n].doc_id # "DOC-INV-0003"
    /\ \E i \in 1..Len(dfs.Documents) :
          /\ dfs.Documents[i].id = "DOC-INV-0003"
          /\ dfs.Documents[i].status = S_REVIEW_PENDING
          /\ dfs.Documents[i].review_url_approve = <<"DOC-INV-0003", "k1">>

\* what the journal shows as collected from the customer for document id
CollectedOn(je, id) ==
    SumCells([i \in 1..Len(RowsOf(je, id)) |->
                IF RowsOf(je, id)[i].account = "1200 Accounts Receivable"
                THEN RowsOf(je, id)[i].credit ELSE Zero])

\* C34: the amount due on every AP and AR row is the row's total, plus the
\* credit-note total netted onto it, less the payments the journal holds for
\* its document.
C34_AmountDueAccounted ==
    /\ \A j \in 1..Len(dfs.AP) :
          dfs.AP[j].amount_due =
             Sub(Add(dfs.AP[j].total,
                     IF dfs.AP[j].doc_id = INV_ID /\ CreditNoteApplied(dfs.AP)
                     THEN RowsOf(dfs.AP, CN_ID)[1].total ELSE Zero),
                 \* the debit of 2100 in a credit note's own posting is no payment
                 IF Lt(dfs.AP[j].total, 0) THEN Zero
                 ELSE PaidOn(dfs.JournalEntries, dfs.AP[j].doc_id))
    /\ \A j \in 1..Len(dfs.AR) :
          dfs.AR[j].amount_due =
             Sub(dfs.AR[j].total, CollectedOn(dfs.JournalEntries, dfs.AR[j].doc_id))

\* C35: in every state, a subledger row that a bank payment has reduced
\* (status paid or partial_paid) has the two journal entries of a payment,
\* one on 1100 Cash/Bank and one on its own control account, in
\* JournalEntries.
C35_PaymentVisibleWithJournals ==
    /\ \A j \in 1..Len(dfs.AP) :
          dfs.AP[j].status \in {"paid", "partial_paid"} =>
             /\ \E n \in 1..Len(dfs.JournalEntries) :
                   /\ dfs.JournalEntries[n].doc_id = dfs.AP[j].doc_id
                   /\ dfs.JournalEntries[n].account = "1100 Cash/Bank"
             /\ Gt(PaidOn(dfs.JournalEntries, dfs.AP[j].doc_id), 0)
    /\ \A j \in 1..Len(dfs.AR) :
          dfs.AR[j].status \in {"paid", "partial_paid"} =>
             /\ \E n \in 1..Len(dfs.JournalEntries) :
                   /\ dfs.JournalEntries[n].doc_id = dfs.AR[j].doc_id
                   /\ dfs.JournalEntries[n].account = "1100 Cash/Bank"
             /\ Gt(CollectedOn(dfs.JournalEntries, dfs.AR[j].doc_id), 0)

\* C36: in every state a subledger row with status paid has at most 0.01
\* due, and a row with status partial_paid has more than 0.01 due.
C36_StatusMatchesAmount ==
    \A ledger \in {dfs.AP, dfs.AR} : \A j \in 1..Len(ledger) :
       /\ ledger[j].status = "paid" => Le(ledger[j].amount_due, PaidEpsilon)
       /\ ledger[j].status = "partial_paid" => Gt(ledger[j].amount_due, PaidEpsilon)

\* C37: every bank row of a reconciliation run that completes leaves a trace:
\* the run adds at least one audit entry per bank row (CLEARED_AP or
\* CLEARED_AR beside a payment pair, UNMATCHED, or ERROR), also for a row
\* whose document has no open subledger row.
C37_EveryRowTraced ==
    [][last' = Ran("reconciliation", FALSE) =>
          Len(NewAudit) >= Len(dfs.BankFeed)]_vars

\* C38: a suggestion of the matcher that no Documents row has is treated as
\* unmatched and the run goes on with the next bank row: a reconciliation run
\* over empty subledgers whose header has the columns of the matcher's prompt
\* completes whatever the matcher answers, and adds neither a journal entry
\* nor a subledger row.
C38_UnknownSuggestionUnmatched ==
    [][/\ last'.op = "reconciliation"
       /\ PromptColumns \subseteq dfs.subledger_columns
       /\ dfs.AP = <<>> /\ dfs.AR = <<>>
       => /\ ~last'.raised
          /\ dfs'.JournalEntries = dfs.JournalEntries
          /\ dfs'.AP = <<>> /\ dfs'.AR = <<>>]_vars

\* the rows of the saved tables that carry the document id
SavedRowsOf(s, id) ==
    [je |-> { j \in 1..Len(s.JournalEntries) : s.JournalEntries[j].doc_id = id },
     ap |-> { j \in 1..Len(s.AP) : s.AP[j].doc_id = id },
     ar |-> { j \in 1..Len(s.AR) : s.AR[j].doc_id = id }]

\* C39: the document run_async_pipeline inserts is left untouched by the
\* stages of that run: in the tables the run saves, its row is the row that
\* was inserted (status EXTRACTED, no fx_rate, no base_amount_total, no
\* reviewer), and no journal entry and no AP or AR row carries its id (an id
\* that another document has too tells nothing about whose rows they are).
C39_InsertedUntouched ==
    last = Ran("run_async_pipeline", FALSE) =>
        LET s == outputs[1]
            d == s.Documents[Len(s.Documents)]
        IN  /\ d \in { DocumentRecord(item) : item \in Items }
            /\ (\A i \in 1..(Len(s.Documents) - 1) : s.Documents[i].id # d.id) =>
                  SavedRowsOf(s, d.id) = [je |-> {}, ap |-> {}, ar |-> {}]
====
